---- MODULE Spec2Model ----
(***************************************************************************)
(* Halin: request dispatch engine (src/src/halin.ts, second revision of    *)
(* the file, lines 653-1342).  Registration (use / on / group), route      *)
(* resolution (pathToPattern / extractParams / findRoute) and the two      *)
(* dispatch entry points, handle and the fetch callback of listen.         *)
(*                                                                         *)
(* Strings that the program inspects character by character (paths and     *)
(* templates) are sequences of one-character strings; messages and bodies  *)
(* that it only builds by concatenation are TLA+ strings.                  *)
(***************************************************************************)
EXTENDS Integers, Sequences, FiniteSets, TLC

(***************************************************************************)
(* Bounds                                                                  *)
(***************************************************************************)
MaxMiddlewares == 2
MaxErrorHandlers == 2
MaxRoutes == 1
MaxBuilders == 2
MaxGroupMiddlewares == 2
MaxShortcutRoutes == 2
MaxSends == 2
MaxCloses == 2
MaxCalls == 3

(***************************************************************************)
(* Values                                                                  *)
(***************************************************************************)
\* an Error object (or a thrown non-Error value): class, statusCode, message
Err(type, statusCode, message) ==
    [type |-> type, statusCode |-> statusCode, message |-> message]

NoError == Err("none", 0, "")

HalinError(statusCode, message) == Err("HalinError", statusCode, message)

PlainError(message) == Err("Error", 0, message)

\* values a handler of the model may throw: Error objects, a HalinError,
\* a string and null
ThrownValues ==
    { PlainError("boom"), PlainError(""), HalinError(418, "teapot"),
      HalinError(1000, "bad"), Err("string", 0, "oops"), Err("null", 0, "") }

\* err instanceof Error
instanceofError(e) == e.type \in {"Error", "HalinError", "TypeError", "RangeError"}

\* String(err) for a thrown value that is not an Error
StringOf(e) == IF e.type = "null" THEN "null" ELSE e.message

\* err instanceof Error ? err : new Error(String(err))
toError(e) == IF instanceofError(e) THEN e ELSE PlainError(StringOf(e))

\* the body of a response: null, or text
NullBody == [kind |-> "null", data |-> ""]

TextBody(s) == [kind |-> "text", data |-> s]

\* JSON.stringify({ error: m })
JSONError(m) == "{\"error\":\"" \o m \o "\"}"

(***************************************************************************)
(* Path templates                                                          *)
(***************************************************************************)
Lit(c) == [t |-> "lit", c |-> c]

CaptureGroup == [t |-> "group", c |-> ""]

Star == [t |-> "star", c |-> ""]

AnyChar == [t |-> "any", c |-> ""]

\* end (inclusive) of the maximal run of non-'/' characters starting at i
RECURSIVE RunEnd(_, _)
RunEnd(s, i) ==
    IF i + 1 <= Len(s) /\ s[i + 1] # "/" THEN RunEnd(s, i + 1) ELSE i

\* a '*' left as it is
RegexChar_literalStar(c) ==
    IF c = "." THEN AnyChar
    ELSE Lit(c)

\* the characters that are left after the two replacements, as the RegExp
\* constructor reads them
RegexChar(c) ==
    IF c = "*" THEN Star
    ELSE IF c = "." THEN AnyChar
    ELSE Lit(c)

RECURSIVE CompileFrom(_, _)
CompileFrom(path, i) ==
    IF i > Len(path) THEN << >>
    ELSE IF /\ path[i] = "/"
            /\ i + 2 <= Len(path)
            /\ path[i + 1] = ":"
            /\ path[i + 2] # "/"
         THEN <<Lit("/"), CaptureGroup>> \o CompileFrom(path, RunEnd(path, i + 2) + 1)
         ELSE <<RegexChar(path[i])>> \o CompileFrom(path, i + 1)

pathToPattern(path) == CompileFrom(path, 1)

NoMatch == [ok |-> FALSE, caps |-> << >>]

Matched(caps) == [ok |-> TRUE, caps |-> caps]

\* path.match(pattern) for the anchored pattern ^...$: backtracking, every
\* quantifier greedy
RECURSIVE MatchFrom(_, _, _, _)
RECURSIVE TryGroup(_, _, _, _, _)
RECURSIVE TryStar(_, _, _, _, _)
MatchFrom(toks, ti, p, pi) ==
    IF ti > Len(toks)
    THEN IF pi > Len(p) THEN Matched(<< >>) ELSE NoMatch
    ELSE LET tok == toks[ti] IN
         CASE tok.t = "lit" ->
                IF pi <= Len(p) /\ p[pi] = tok.c
                THEN MatchFrom(toks, ti + 1, p, pi + 1) ELSE NoMatch
           [] tok.t = "any" ->
                IF pi <= Len(p)
                THEN MatchFrom(toks, ti + 1, p, pi + 1) ELSE NoMatch
           [] tok.t = "group" ->
                IF pi <= Len(p) /\ p[pi] # "/"
                THEN TryGroup(toks, ti, p, pi, RunEnd(p, pi) - pi + 1)
                ELSE NoMatch
           [] tok.t = "star" ->
                TryStar(toks, ti, p, pi, Len(p) - pi + 1)

\* ([^/]+) taking k characters, longest first
TryGroup(toks, ti, p, pi, k) ==
    IF k < 1 THEN NoMatch
    ELSE LET rest == MatchFrom(toks, ti + 1, p, pi + k) IN
         IF rest.ok
         THEN Matched(<<SubSeq(p, pi, pi + k - 1)>> \o rest.caps)
         ELSE TryGroup(toks, ti, p, pi, k - 1)

\* .* taking k characters, longest first
TryStar(toks, ti, p, pi, k) ==
    IF k < 0 THEN NoMatch
    ELSE LET rest == MatchFrom(toks, ti + 1, p, pi + k) IN
         IF rest.ok THEN rest ELSE TryStar(toks, ti, p, pi, k - 1)

match(path, pattern) == MatchFrom(pattern, 1, path, 1)

\* route.path.match(/:[^/]+/g) || [], each name without its ':'
RECURSIVE ParamNamesFrom(_, _)
ParamNamesFrom(path, i) ==
    IF i > Len(path) THEN << >>
    ELSE IF path[i] = ":" /\ i + 1 <= Len(path) /\ path[i + 1] # "/"
         THEN <<SubSeq(path, i + 1, RunEnd(path, i + 1))>>
                  \o ParamNamesFrom(path, RunEnd(path, i + 1) + 1)
         ELSE ParamNamesFrom(path, i + 1)

\* the names with their ':' kept
paramNames_colon(path) ==
    [k \in 1..Len(ParamNamesFrom(path, 1)) |-> <<":">> \o ParamNamesFrom(path, 1)[k]]

paramNames(path) == ParamNamesFrom(path, 1)

Undefined == <<"undefined">>

\* params as a sequence of <<name, value>> in assignment order; a later
\* assignment to the same name replaces the value in place
RECURSIVE AssignParams(_, _, _, _)
AssignParams(params, names, caps, i) ==
    IF i > Len(names) THEN params
    ELSE LET v == IF i <= Len(caps) THEN caps[i] ELSE Undefined
             at == {j \in 1..Len(params) : params[j][1] = names[i]}
             upd == IF at = {}
                    THEN Append(params, <<names[i], v>>)
                    ELSE [j \in 1..Len(params) |->
                             IF j \in at THEN <<names[i], v>> ELSE params[j]]
         IN AssignParams(upd, names, caps, i + 1)

NoParams == [ok |-> FALSE, params |-> << >>]

extractParams(route, path) ==
    LET m == match(path, route.pattern) IN
    IF ~m.ok THEN NoParams
    ELSE [ok |-> TRUE,
          params |-> AssignParams(<< >>, paramNames(route.path), m.caps, 1)]

(***************************************************************************)
(* Response object                                                         *)
(***************************************************************************)
\* Headers normalises header names to lower case
HeaderName(n) ==
    CASE n = "Content-Type" -> "content-type"
      [] n = "X-Request-ID" -> "x-request-id"
      [] n = "Cache-Control" -> "cache-control"
      [] n = "Connection" -> "connection"
      [] n = "X" -> "x"
      [] n = "Access-Control-Allow-Origin" -> "access-control-allow-origin"
      [] OTHER -> n

\* a value added to those the name already has
HeadersSet_append(headers, name, value) ==
    headers \cup {<<HeaderName(name), value>>}

\* Headers.set: one value per (case-insensitive) name, the last one
HeadersSet(headers, name, value) ==
    {p \in headers : p[1] # HeaderName(name)} \cup {<<HeaderName(name), value>>}

\* an SSEWriter: its fields, the state of its ReadableStream ("readable",
\* "closed" after controller.close(), "cancelled" by the consumer) and the
\* chunks enqueued on it; sends, closes and finalized count the calls of
\* send(), of close() and of controller.close(), fault records a call on the
\* controller that the stream rejects with a TypeError, returned is what the
\* last call of send() returned, log the calls of send() and close() and the
\* cancellation, in the order they were made, up to the first close() or
\* cancellation
SSEWriter(id) ==
    [id |-> id,
     statusCode |-> 200,
     headers |-> {<<"content-type", "text/event-stream">>,
                  <<"cache-control", "no-cache">>,
                  <<"connection", "keep-alive">>},
     closed |-> FALSE,
     stream |-> "readable",
     chunks |-> << >>,
     sends |-> 0,
     closes |-> 0,
     finalized |-> 0,
     by |-> "",
     fault |-> FALSE,
     returned |-> "none",
     log |-> << >>]

\* currentResponse = null
NoWriter == [SSEWriter(0) EXCEPT !.stream = "none"]

\* data passed to send: a string, or a value with its JSON.stringify text
StringData(str) == [t |-> "string", v |-> str]

ObjectData(str) == [t |-> "object", v |-> str]

\* a frame whose message is JSON.stringify(data) for a string as well
SSEFrame_stringified(data) ==
    "data: " \o (IF data.t = "string" THEN "\"" \o data.v \o "\"" ELSE data.v)
             \o "\n\n"

\* `data: ${message}\n\n`, message being the string itself or the JSON text
SSEFrame(data) == "data: " \o data.v \o "\n\n"

\* a call recorded in the log of a writer, which ends with the first close()
\* or cancellation
Logged(w, op, data) ==
    IF \E k \in 1..Len(w.log) : w.log[k].op \in {"close", "cancel"}
    THEN w
    ELSE [w EXCEPT !.log = Append(@, [op |-> op, data |-> data])]

\* controller.enqueue(chunk): a TypeError unless the stream is readable
enqueue(w, chunk) ==
    IF w.stream = "readable"
    THEN [w EXCEPT !.chunks = Append(@, chunk)]
    ELSE [w EXCEPT !.fault = TRUE]

\* send without the test of closed
SSEWriterSend_unguarded(w, data) ==
    [enqueue(Logged(w, "send", data), SSEFrame(data)) EXCEPT !.sends = @ + 1, !.returned = "undefined"]

\* SSEWriter.send(data): void, so that every call returns undefined
SSEWriterSend(w, data) ==
    IF w.closed
    THEN [Logged(w, "send", data) EXCEPT !.sends = @ + 1, !.returned = "undefined"]
    ELSE [enqueue(Logged(w, "send", data), SSEFrame(data))
              EXCEPT !.sends = @ + 1, !.returned = "undefined"]

\* controller.close(): a TypeError unless the stream is readable
controllerClose(w) ==
    IF w.stream = "readable"
    THEN [w EXCEPT !.stream = "closed", !.finalized = @ + 1]
    ELSE [w EXCEPT !.fault = TRUE]

\* close without the test of closed
SSEWriterClose_unguarded(w) ==
    [controllerClose(Logged(w, "close", "")) EXCEPT !.closed = TRUE, !.closes = @ + 1,
                               !.by = IF w.closed THEN w.by ELSE "close"]

\* SSEWriter.close()
SSEWriterClose(w) ==
    IF w.closed THEN [Logged(w, "close", "") EXCEPT !.closes = @ + 1]
    ELSE [controllerClose(Logged(w, "close", "")) EXCEPT !.closed = TRUE, !.closes = @ + 1,
                                    !.by = "close"]

\* the cancel callback of the stream, run when the consumer cancels it
SSEWriterCancel(w) ==
    [Logged(w, "cancel", "") EXCEPT !.closed = TRUE, !.stream = "cancelled",
              !.by = IF w.closed THEN w.by ELSE "cancel"]

\* the response object with currentResponse, the variable res.sse() assigns
NewResponse ==
    [statusCode |-> 200, headers |-> {}, body |-> NullBody,
     currentResponse |-> NoWriter]

\* an sse() that keeps the writer it made first
sse_first(r) ==
    IF r.currentResponse.id = 0
    THEN [r EXCEPT !.currentResponse = SSEWriter(1)]
    ELSE r

\* res.sse(): a new SSEWriter becomes the current response
sse(r) == [r EXCEPT !.currentResponse = SSEWriter(@.id + 1)]

status(r, code) == [r EXCEPT !.statusCode = code]

header(r, name, value) == [r EXCEPT !.headers = HeadersSet(r.headers, name, value)]

\* json that leaves a body already set as it is
json_first(r, str) ==
    IF r.body = NullBody
    THEN [header(r, "Content-Type", "application/json") EXCEPT !.body = TextBody(str)]
    ELSE header(r, "Content-Type", "application/json")

\* json(data), with str = JSON.stringify(data)
json(r, str) ==
    [header(r, "Content-Type", "application/json") EXCEPT !.body = TextBody(str)]

text(r, data) ==
    [header(r, "Content-Type", "text/plain") EXCEPT !.body = TextBody(data)]

(***************************************************************************)
(* Handlers.  A handler is a function supplied by the application; the    *)
(* model draws them from a fixed set of small programs.  A program is a   *)
(* sequence of statements; "next" is `await next()`, and running off the  *)
(* end of the program is the handler returning.                           *)
(***************************************************************************)
Stmt(op, a, b, n) == [op |-> op, a |-> a, b |-> b, n |-> n]

\* middleware and route handlers (declared with at most three parameters)
Handlers == {"A", "B", "auth", "H", "N", "T", "S", "L", "cors", "D", "W", "R"}

\* error handlers (declared with four parameters)
ErrorHandlers == {"E", "EP", "ET"}

\* strings passed to use as its first argument
MountPaths == {"/api", "/admin"}

\* handler.length: the number of declared parameters of a function, the
\* number of characters of a string
length(h) ==
    CASE h = "/api" -> 4
      [] h = "/admin" -> 6
      [] h \in ErrorHandlers -> 4
      [] OTHER -> 3

Program(h) ==
    CASE h = "A" ->    \* res.header('X-Request-ID', id); await next()
           <<Stmt("header", "X-Request-ID", "1", 0), Stmt("next", "", "", 0)>>
      [] h = "B" ->    \* res.status(202); await next()
           <<Stmt("status", "", "", 202), Stmt("next", "", "", 0)>>
      [] h = "auth" -> \* if (token === 'secret') await next(); else throw new Error('Unauthorized')
           <<Stmt("auth", "", "", 0), Stmt("next", "", "", 0)>>
      [] h = "H" ->    \* res.json({ message: 'test' })
           <<Stmt("json", "{\"message\":\"test\"}", "", 0)>>
      [] h = "N" ->    \* returns without touching the response
           << >>
      [] h = "T" ->    \* throws one of ThrownValues
           <<Stmt("throwAny", "", "", 0)>>
      [] h = "S" ->    \* const sse = res.sse(); sse.send({ message: 'test' }); sse.close()
           <<Stmt("sse", "", "", 0),
             Stmt("sseSend", "{\"message\":\"test\"}", "object", 0),
             Stmt("sseClose", "", "", 0)>>
      [] h = "L" ->    \* res.header('Cache-Control', 'public'); res.sse(); await next()
           <<Stmt("header", "Cache-Control", "public", 0), Stmt("sse", "", "", 0),
             Stmt("next", "", "", 0)>>
      [] h = "cors" -> \* res.headers.set('Access-Control-Allow-Origin', '*'); next()
           <<Stmt("header", "Access-Control-Allow-Origin", "*", 0),
             Stmt("nextDetached", "", "", 0)>>
      [] h = "W" ->    \* const sse = res.sse(); sse.statusCode = 201; res.status(404); await next()
           <<Stmt("sse", "", "", 0), Stmt("sseStatus", "", "", 201),
             Stmt("status", "", "", 404), Stmt("next", "", "", 0)>>
      [] h = "R" ->    \* res.sse(); res.header('X', '1')
           <<Stmt("sse", "", "", 0), Stmt("header", "X", "1", 0)>>
      [] h = "D" ->    \* await next(); await next()
           <<Stmt("next", "", "", 0), Stmt("next", "", "", 0)>>
      [] h \in MountPaths ->   \* a string: calling it is a TypeError
           <<Stmt("notFunction", "", "", 0)>>
      [] h = "E" ->    \* res.status(500).json({ error: error.message })
           <<Stmt("status", "", "", 500), Stmt("jsonError", "", "", 0)>>
      [] h = "EP" ->   \* await next()
           <<Stmt("next", "", "", 0)>>
      [] h = "ET" ->   \* throw new Error('recovery failed')
           <<Stmt("throw", "recovery failed", "", 0)>>

Outcome(r, pc, out, exc) == [res |-> r, pc |-> pc, out |-> out, exc |-> exc]

\* Runs handler h from statement pc until it calls next ("call", or "detach"
\* when it does not await the promise; pc is where it resumes), returns
\* ("return") or throws ("throw").  The result
\* is the set of possible outcomes: what a handler does may depend on
\* request content the model does not carry (the authorization header,
\* the value thrown).
RECURSIVE RunFrom(_, _, _, _)
RunFrom(h, pc, r, err) ==
    IF pc > Len(Program(h)) THEN {Outcome(r, pc, "return", NoError)}
    ELSE LET s == Program(h)[pc] IN
         CASE s.op = "header" -> RunFrom(h, pc + 1, header(r, s.a, s.b), err)
           [] s.op = "status" -> RunFrom(h, pc + 1, status(r, s.n), err)
           [] s.op = "json" -> RunFrom(h, pc + 1, json(r, s.a), err)
           [] s.op = "jsonError" ->
                RunFrom(h, pc + 1, json(r, JSONError(err.message)), err)
           [] s.op = "sse" -> RunFrom(h, pc + 1, sse(r), err)
           [] s.op = "sseStatus" ->
                RunFrom(h, pc + 1, [r EXCEPT !.currentResponse.statusCode = s.n], err)
           [] s.op = "sseSend" ->
                LET w == SSEWriterSend(r.currentResponse, [t |-> s.b, v |-> s.a]) IN
                IF w.fault
                THEN {Outcome([r EXCEPT !.currentResponse = w], pc, "throw",
                              Err("TypeError", 0, "Invalid state"))}
                ELSE RunFrom(h, pc + 1, [r EXCEPT !.currentResponse = w], err)
           [] s.op = "sseClose" ->
                LET w == SSEWriterClose(r.currentResponse) IN
                IF w.fault
                THEN {Outcome([r EXCEPT !.currentResponse = w], pc, "throw",
                              Err("TypeError", 0, "Invalid state"))}
                ELSE RunFrom(h, pc + 1, [r EXCEPT !.currentResponse = w], err)
           [] s.op = "next" -> {Outcome(r, pc + 1, "call", NoError)}
           [] s.op = "nextDetached" -> {Outcome(r, pc + 1, "detach", NoError)}
           [] s.op = "throw" -> {Outcome(r, pc, "throw", PlainError(s.a))}
           [] s.op = "notFunction" ->
                {Outcome(r, pc, "throw", Err("TypeError", 0, "handler is not a function"))}
           [] s.op = "throwAny" ->
                {Outcome(r, pc, "throw", v) : v \in ThrownValues}
           [] s.op = "auth" ->
                RunFrom(h, pc + 1, r, err)
                    \cup {Outcome(r, pc, "throw", PlainError("Unauthorized"))}

(***************************************************************************)
(* State                                                                   *)
(***************************************************************************)
VARIABLES
    routes,          \* Halin.routes
    middlewares,     \* Halin.middlewares
    errorHandlers,   \* Halin.errorHandlers
    builders,        \* the GroupBuilder objects created so far
    phase,           \* where the request in flight is
    entry,           \* "handle" or "listen"
    req,             \* the request object of the request in flight
    res,             \* its response object
    handlers,        \* its handler chain
    index,           \* cursor of next
    errorIndex,      \* cursor of errorNext
    stack,           \* handlers suspended in `await next()`, innermost last
    error,           \* the error being handled
    trace,           \* handlers invoked for the request, in order
    etrace,          \* error handlers invoked, with the error each received
    thrown,          \* the value a handler of the chain threw, as thrown
    wire,            \* what the dispatch call resolved with
    origin,          \* per builder: how it was declared
    declared,        \* per route: how it was declared
    mounted,         \* per middleware: the path argument of the use call, or ""
    calls,           \* status and header calls made on res outside the chain
    previous,        \* outcome of the handle call whose request is replayed
    parked           \* the locals of another dispatch call, suspended

regVars == <<routes, middlewares, errorHandlers, builders, origin, declared,
            mounted>>

reqVars == <<phase, entry, req, res, handlers, index, errorIndex, stack,
             error, trace, etrace, thrown, wire, calls, previous>>

vars == <<routes, middlewares, errorHandlers, builders, origin, declared,
          mounted, phase, entry, req, res, handlers, index, errorIndex, stack,
          error, trace, etrace, thrown, wire, calls, previous, parked>>

NoWire == [kind |-> "none", status |-> 0, headers |-> {}, body |-> NullBody]

\* the body of a raw request: absent, or a text with its Content-Type; valid
\* tells whether the parser for that type accepts the text
NoBody == [present |-> FALSE, contentType |-> "", text |-> "", valid |-> TRUE]

RawBody(contentType, str, valid) ==
    [present |-> TRUE, contentType |-> contentType, text |-> str, valid |-> valid]

\* req.body: null, or the parsed body with the way it was parsed
NullValue == [kind |-> "null", data |-> ""]

NoRequest ==
    [method |-> "", path |-> << >>, params |-> << >>, body |-> NullValue,
     raw |-> NoBody]

NoPrevious == [set |-> FALSE]

\* what a dispatch call declares in its own scope (request, path, req,
\* currentResponse, res, handlers, index, error, errorIndex) with the position
\* of the call and what is recorded of it
Locals(ph, en, rq, rs, hs, ix, eix, stk, err, tr, etr, thr, w) ==
    [phase |-> ph, entry |-> en, req |-> rq, res |-> rs, handlers |-> hs,
     index |-> ix, errorIndex |-> eix, stack |-> stk, error |-> err,
     trace |-> tr, etrace |-> etr, thrown |-> thr, wire |-> w]

\* no other call
NoLocals ==
    Locals("idle", "", NoRequest, NewResponse, << >>, 0, 0, << >>, NoError,
           << >>, << >>, NoError, NoWire)

\* no request in flight
Idle ==
    /\ phase = "idle"
    /\ entry = ""
    /\ req = NoRequest
    /\ res = NewResponse
    /\ handlers = << >>
    /\ index = 0
    /\ errorIndex = 0
    /\ stack = << >>
    /\ error = NoError
    /\ trace = << >>
    /\ etrace = << >>
    /\ thrown = NoError
    /\ wire = NoWire
    /\ calls = << >>
    /\ previous = NoPrevious
    /\ parked = NoLocals

Init ==
    /\ routes = << >>
    /\ middlewares = << >>
    /\ errorHandlers = << >>
    /\ builders = << >>
    /\ origin = << >>
    /\ declared = << >>
    /\ mounted = << >>
    /\ Idle

(***************************************************************************)
(* Registration                                                            *)
(***************************************************************************)
\* the request-scoped objects of a finished request are discarded
Discard ==
    /\ phase' = "idle"
    /\ entry' = ""
    /\ req' = NoRequest
    /\ res' = NewResponse
    /\ handlers' = << >>
    /\ index' = 0
    /\ errorIndex' = 0
    /\ stack' = << >>
    /\ error' = NoError
    /\ trace' = << >>
    /\ etrace' = << >>
    /\ thrown' = NoError
    /\ wire' = NoWire
    /\ calls' = << >>
    /\ previous' = NoPrevious
    /\ parked' = NoLocals

\* no request is in flight
Quiescent == phase \in {"idle", "done"}

\* method.toUpperCase()
toUpperCase(method) ==
    CASE method = "get" -> "GET"
      [] method = "post" -> "POST"
      [] OTHER -> method

RouteDefinition(method, path, hs) ==
    [method |-> method, path |-> path, pattern |-> pathToPattern(path),
     handlers |-> hs]

\* use(handler): classified by the number of declared parameters
use(handler) ==
    /\ Quiescent
    /\ IF length(handler) = 4
       THEN /\ Len(errorHandlers) < MaxErrorHandlers
            /\ errorHandlers' = Append(errorHandlers, handler)
            /\ UNCHANGED <<middlewares, mounted>>
       ELSE /\ Len(middlewares) < MaxMiddlewares
            /\ middlewares' = Append(middlewares, handler)
            /\ mounted' = Append(mounted, "")
            /\ UNCHANGED errorHandlers
    /\ UNCHANGED <<routes, builders, origin, declared>>
    /\ Discard

\* handlers.forEach of use: each argument pushed on the list its length
\* selects
RECURSIVE Pushed(_, _, _)
Pushed(lists, args, path) ==
    IF args = << >> THEN lists
    ELSE Pushed(IF length(Head(args)) = 4
                THEN [lists EXCEPT !.errorHandlers = Append(@, Head(args))]
                ELSE [lists EXCEPT !.middlewares = Append(@, Head(args)),
                                   !.mounted = Append(@, path)],
                Tail(args), path)

\* use(path, handler), as the README and the tests call it
usePath(path, handler) ==
    /\ Quiescent
    /\ LET l == Pushed([middlewares |-> middlewares,
                        errorHandlers |-> errorHandlers,
                        mounted |-> mounted], <<path, handler>>, path)
       IN /\ Len(l.middlewares) <= MaxMiddlewares
          /\ Len(l.errorHandlers) <= MaxErrorHandlers
          /\ middlewares' = l.middlewares
          /\ errorHandlers' = l.errorHandlers
          /\ mounted' = l.mounted
    /\ UNCHANGED <<routes, builders, origin, declared>>
    /\ Discard

\* how a route was declared: the prefixes and the middleware of the groups
\* around it, outermost first, then its own path and handlers
Declaration(prefixes, levels, path, hs) ==
    [prefixes |-> prefixes, levels |-> levels, path |-> path, handlers |-> hs]

addRoute(method, path, hs) ==
    /\ routes' = Append(routes, RouteDefinition(method, path, hs))
    /\ declared' = Append(declared, Declaration(<< >>, << >>, path, hs))

\* on(method, path, ...handlers); get, post, ... are on('GET', ...), ...
on(method, path, hs) ==
    /\ Quiescent
    /\ Len(routes) < MaxRoutes
    /\ addRoute(toUpperCase(method), path, hs)
    /\ UNCHANGED <<middlewares, mounted, errorHandlers, builders, origin>>
    /\ Discard

\* get(path, ...handlers): on('GET', path, ...handlers)
get(path, hs) ==
    /\ Quiescent
    /\ Len(routes) < MaxShortcutRoutes
    /\ addRoute(toUpperCase("GET"), path, hs)
    /\ UNCHANGED <<middlewares, mounted, errorHandlers, builders, origin>>
    /\ Discard

\* post(path, ...handlers): on('POST', path, ...handlers)
post(path, hs) ==
    /\ Quiescent
    /\ Len(routes) < MaxShortcutRoutes
    /\ addRoute(toUpperCase("POST"), path, hs)
    /\ UNCHANGED <<middlewares, mounted, errorHandlers, builders, origin>>
    /\ Discard

GroupBuilder(prefix, mws) == [prefix |-> prefix, _middlewares |-> mws]

\* the argument of group: a path, a handler or an array of handlers
PathArg(path) == [kind |-> "string", path |-> path, handlers |-> << >>]

HandlerArg(handler) == [kind |-> "function", path |-> << >>, handlers |-> <<handler>>]

ArrayArg(hs) == [kind |-> "array", path |-> << >>, handlers |-> hs]

\* Halin.prefix: declared '' and never assigned
prefix == << >>

\* group(pathOrMiddleware): a new builder; a path becomes its prefix, a
\* handler or an array of handlers its first middleware
group(pathOrMiddleware) ==
    /\ Quiescent
    /\ Len(builders) < MaxBuilders
    /\ builders' = Append(builders,
                      IF pathOrMiddleware.kind = "string"
                      THEN GroupBuilder(prefix \o pathOrMiddleware.path, << >>)
                      ELSE GroupBuilder(<< >>, pathOrMiddleware.handlers))
    /\ origin' = Append(origin,
                    [prefixes |-> <<pathOrMiddleware.path>>,
                     levels |-> <<pathOrMiddleware.handlers>>])
    /\ UNCHANGED <<routes, middlewares, mounted, errorHandlers, declared>>
    /\ Discard

\* use on a builder that also rewrites the chains of the routes already
\* declared under the builder's prefixes
GroupBuilderUse_retroactive(b, handler) ==
    /\ Quiescent
    /\ b \in 1..Len(builders)
    /\ Len(builders[b]._middlewares) < MaxGroupMiddlewares
    /\ builders' = [builders EXCEPT ![b]._middlewares = Append(@, handler)]
    /\ origin' = [origin EXCEPT ![b].levels[Len(origin[b].levels)] = Append(@, handler)]
    /\ routes' = [i \in 1..Len(routes) |->
                     IF declared[i].prefixes = origin[b].prefixes
                     THEN [routes[i] EXCEPT !.handlers =
                              Append(builders[b]._middlewares, handler)
                                  \o declared[i].handlers]
                     ELSE routes[i]]
    /\ UNCHANGED <<middlewares, mounted, errorHandlers, declared>>
    /\ Discard

\* use on a builder whose array the builders nested in it share
GroupBuilderUse_shared(b, handler) ==
    /\ Quiescent
    /\ b \in 1..Len(builders)
    /\ Len(builders[b]._middlewares) < MaxGroupMiddlewares
    /\ builders' = [c \in 1..Len(builders) |->
                       IF \/ c = b
                          \/ /\ Len(origin[c].prefixes) > Len(origin[b].prefixes)
                             /\ origin[b].prefixes
                                    = SubSeq(origin[c].prefixes, 1, Len(origin[b].prefixes))
                       THEN [builders[c] EXCEPT !._middlewares = Append(@, handler)]
                       ELSE builders[c]]
    /\ origin' = [origin EXCEPT ![b].levels[Len(origin[b].levels)] = Append(@, handler)]
    /\ UNCHANGED <<routes, middlewares, mounted, errorHandlers, declared>>
    /\ Discard

\* GroupBuilder.use(handler) on builder b
GroupBuilderUse(b, handler) ==
    /\ Quiescent
    /\ b \in 1..Len(builders)
    /\ Len(builders[b]._middlewares) < MaxGroupMiddlewares
    /\ builders' = [builders EXCEPT ![b]._middlewares = Append(@, handler)]
    /\ origin' = [origin EXCEPT ![b].levels[Len(origin[b].levels)] = Append(@, handler)]
    /\ UNCHANGED <<routes, middlewares, mounted, errorHandlers, declared>>
    /\ Discard

\* the route's own handlers alone
groupChain_own(groupMiddlewares, hs) == hs

\* [...this.groupMiddlewares, ...handlers]
groupChain(groupMiddlewares, hs) == groupMiddlewares \o hs

\* a nested builder that starts without the middleware of its parent
nestedGroup_bare(parent, path) == GroupBuilder(parent.prefix \o path, << >>)

\* the builder GroupRouter.group(path) returns: the prefix extended, the
\* middleware of the router passed through use
nestedGroup(parent, path) ==
    GroupBuilder(parent.prefix \o path, parent._middlewares)

\* GroupRouter.addRoute on the router that routes() makes of builder b:
\* the router holds the builder's prefix and its middleware array itself
GroupRouterAddRoute(b, method, path, hs) ==
    /\ Quiescent
    /\ b \in 1..Len(builders)
    /\ Len(routes) < MaxRoutes
    /\ routes' = Append(routes,
                    RouteDefinition(method, builders[b].prefix \o path,
                                    groupChain(builders[b]._middlewares, hs)))
    /\ declared' = Append(declared,
                      Declaration(origin[b].prefixes, origin[b].levels, path, hs))
    /\ UNCHANGED <<middlewares, mounted, errorHandlers, builders, origin>>
    /\ Discard

\* GroupRouter.group(path) on the router of builder b
GroupRouterGroup(b, path) ==
    /\ Quiescent
    /\ b \in 1..Len(builders)
    /\ Len(builders) < MaxBuilders
    /\ builders' = Append(builders, nestedGroup(builders[b], path))
    /\ origin' = Append(origin,
                    [prefixes |-> Append(origin[b].prefixes, path),
                     levels |-> Append(origin[b].levels, << >>)])
    /\ UNCHANGED <<routes, middlewares, mounted, errorHandlers, declared>>
    /\ Discard

(***************************************************************************)
(* Route resolution                                                        *)
(***************************************************************************)
NoRoute == [found |-> FALSE, route |-> 0, params |-> << >>]

\* the method of the route not compared
sameMethod_any(route, method) == TRUE

\* route.method === method
sameMethod(route, method) == route.method = method

RECURSIVE FindFrom(_, _, _, _)
FindFrom(rs, i, method, path) ==
    IF i > Len(rs) THEN NoRoute
    ELSE IF sameMethod(rs[i], method) /\ extractParams(rs[i], path).ok
         THEN [found |-> TRUE, route |-> i,
               params |-> extractParams(rs[i], path).params]
         ELSE FindFrom(rs, i + 1, method, path)

\* the matching route registered last
findRoute_last(method, path) ==
    LET ms == {i \in 1..Len(routes) :
                  sameMethod(routes[i], method) /\ extractParams(routes[i], path).ok}
    IN IF ms = {} THEN NoRoute
       ELSE LET i == CHOOSE j \in ms : \A k \in ms : k <= j
            IN [found |-> TRUE, route |-> i,
                params |-> extractParams(routes[i], path).params]

findRoute(method, path) == FindFrom(routes, 1, method, path)

(***************************************************************************)
(* Wire responses                                                          *)
(***************************************************************************)
WireResponse(body, st, hdrs) ==
    [kind |-> "response", status |-> st, headers |-> hdrs, body |-> body]

\* the dispatch call rejected with e instead of resolving
Rejected(e) ==
    [kind |-> "rejected", status |-> e.statusCode, headers |-> {},
     body |-> TextBody(e.message)]

RangeError == Err("RangeError", 0, "The status provided must be 101 or in the range of [200, 599]")

\* new globalThis.Response(body, { status, headers }): the constructor
\* throws a RangeError for a status outside 101, 200..599
Response(body, st, hdrs) ==
    IF st = 101 \/ (st >= 200 /\ st <= 599)
    THEN [ok |-> TRUE, wire |-> WireResponse(body, st, hdrs), exc |-> NoError]
    ELSE [ok |-> FALSE, wire |-> NoWire, exc |-> RangeError]

JSONHeaders == {<<"content-type", "application/json">>}

(***************************************************************************)
(* Error propagation through the continuation closures                     *)
(***************************************************************************)
\* error.message of a caught value
messageOf(e) == IF e.type = "string" THEN "undefined" ELSE e.message

TypeError == Err("TypeError", 0, "null is not an object")

\* the catch block of a continuation closure of listen: a HalinError is
\* rethrown, anything else is wrapped; reading .message of null throws
wrapError(e, label) ==
    IF e.type = "HalinError" THEN e
    ELSE IF e.type = "null" THEN TypeError
    ELSE HalinError(500, label \o messageOf(e))

\* an error crossing n nested continuation calls: handle rethrows it as it
\* is, listen wraps it at every level
RECURSIVE propagate(_, _, _, _)
propagate(e, n, via, label) ==
    IF n = 0 \/ via = "handle" THEN e
    ELSE propagate(wrapError(e, label), n - 1, via, label)

(***************************************************************************)
(* Dispatch                                                                *)
(***************************************************************************)
Frame(h, pc) == [h |-> h, pc |-> pc, detached |-> FALSE]

\* a handler that called next() and dropped the promise
DetachedFrame(h, pc) == [h |-> h, pc |-> pc, detached |-> TRUE]

\* the innermost frame of stk whose handler dropped the promise of next(),
\* 0 when every handler of stk awaits
InnermostDetached(stk) ==
    LET ds == {k \in 1..Len(stk) : stk[k].detached} IN
    IF ds = {} THEN 0 ELSE CHOOSE k \in ds : \A j \in ds : j <= k

\* the chain without the middleware registered after the route (for a route
\* registered before any middleware: the route's handlers)
chain_asRegistered(mws, routeHandlers) == routeHandlers

\* the chain with the route's handlers put first
chain_routeFirst(mws, routeHandlers) == routeHandlers \o mws

\* [...this.middlewares, ...match.route.handlers]
chain(mws, routeHandlers) == mws \o routeHandlers

\* the chain built in this.middlewares itself
afterChain_shared(mws, routeHandlers) == mws \o routeHandlers

\* this.middlewares once the chain is built: the chain is a new array (the
\* spread of this.middlewares), the route's handlers are added to the copy
afterChain(mws, routeHandlers) == mws

\* the message of the error the parser throws
ParseMessage == "JSON Parse error"

\* handle: only a JSON body is parsed, req.body stays null otherwise; null
\* parsed stands for a body that request.json() rejects
handleBody(body) ==
    IF body.present /\ body.contentType = "application/json"
    THEN IF body.valid
         THEN [ok |-> TRUE, value |-> [kind |-> "json", data |-> body.text],
               exc |-> NoError]
         ELSE [ok |-> FALSE, value |-> NullValue,
               exc |-> HalinError(400, "Invalid JSON body")]
    ELSE [ok |-> TRUE, value |-> NullValue, exc |-> NoError]

\* listen: the body is parsed by Content-Type: JSON, form data, else text
fetchBody(body) ==
    IF ~body.present
    THEN [ok |-> TRUE, value |-> NullValue, exc |-> NoError]
    ELSE IF body.contentType \in {"application/json",
                                  "application/x-www-form-urlencoded"}
         THEN IF body.valid
              THEN [ok |-> TRUE,
                    value |-> [kind |-> IF body.contentType = "application/json"
                                        THEN "json" ELSE "form",
                               data |-> body.text],
                    exc |-> NoError]
              ELSE [ok |-> FALSE, value |-> NullValue,
                    exc |-> HalinError(400, "Invalid request body: " \o ParseMessage)]
         ELSE [ok |-> TRUE, value |-> [kind |-> "text", data |-> body.text],
               exc |-> NoError]

\* a handle that parses the body before it resolves the route
handle_parseFirst(method, path, body) ==
    /\ Quiescent
    /\ LET m == findRoute(method, path)
           b == handleBody(body)
       IN
       /\ entry' = "handle"
       /\ req' = [method |-> method, path |-> path, params |-> m.params,
                  body |-> b.value,
                  raw |-> body]
       /\ res' = NewResponse
       /\ IF m.found /\ b.ok
          THEN /\ handlers' = chain(middlewares, routes[m.route].handlers)
               /\ middlewares' = afterChain(middlewares, routes[m.route].handlers)
               /\ phase' = "next"
               /\ error' = NoError
          ELSE /\ handlers' = << >>
               /\ UNCHANGED middlewares
               /\ phase' = "catch"
               /\ error' = IF b.ok THEN HalinError(404, "Not Found") ELSE b.exc
    /\ index' = 0
    /\ errorIndex' = 0
    /\ stack' = << >>
    /\ trace' = << >>
    /\ etrace' = << >>
    /\ thrown' = NoError
    /\ wire' = NoWire
    /\ calls' = << >>
    /\ previous' = NoPrevious
    /\ UNCHANGED <<routes, errorHandlers, builders, origin, declared, mounted,
                   parked>>

\* handle(request): request and response objects, route resolution, then
\* the body
handle(method, path, body) ==
    /\ Quiescent
    /\ LET m == findRoute(method, path)
           b == handleBody(body)
       IN
       /\ entry' = "handle"
       /\ req' = [method |-> method, path |-> path, params |-> m.params,
                  body |-> IF m.found THEN b.value ELSE NullValue,
                  raw |-> body]
       /\ res' = NewResponse
       /\ IF m.found /\ b.ok
          THEN /\ handlers' = chain(middlewares, routes[m.route].handlers)
               /\ middlewares' = afterChain(middlewares, routes[m.route].handlers)
               /\ phase' = "next"
               /\ error' = NoError
          ELSE /\ handlers' = << >>
               /\ UNCHANGED middlewares
               /\ phase' = "catch"
               /\ error' = IF m.found THEN b.exc ELSE HalinError(404, "Not Found")
    /\ index' = 0
    /\ errorIndex' = 0
    /\ stack' = << >>
    /\ trace' = << >>
    /\ etrace' = << >>
    /\ thrown' = NoError
    /\ wire' = NoWire
    /\ calls' = << >>
    /\ previous' = NoPrevious
    /\ UNCHANGED <<routes, errorHandlers, builders, origin, declared, mounted,
                   parked>>

\* the fetch callback of listen, up to the middleware stack: route
\* resolution, the body, then the request and response objects
fetchCall(method, path, body) ==
    /\ Quiescent
    /\ LET m == findRoute(method, path)
           b == fetchBody(body)
       IN
       /\ entry' = "listen"
       /\ req' = [method |-> method, path |-> path, params |-> m.params,
                  body |-> IF m.found THEN b.value ELSE NullValue,
                  raw |-> body]
       /\ res' = NewResponse
       /\ IF m.found /\ b.ok
          THEN /\ handlers' = chain(middlewares, routes[m.route].handlers)
               /\ middlewares' = afterChain(middlewares, routes[m.route].handlers)
               /\ phase' = "next"
               /\ error' = NoError
          ELSE /\ handlers' = << >>
               /\ UNCHANGED middlewares
               /\ phase' = "boundary"
               /\ error' = IF m.found THEN b.exc ELSE HalinError(404, "Not Found")
    /\ index' = 0
    /\ errorIndex' = 0
    /\ stack' = << >>
    /\ trace' = << >>
    /\ etrace' = << >>
    /\ thrown' = NoError
    /\ wire' = NoWire
    /\ calls' = << >>
    /\ UNCHANGED <<routes, errorHandlers, builders, origin, declared, mounted,
                   parked>>

\* the fetch callback of listen
fetch(method, path, body) ==
    /\ fetchCall(method, path, body)
    /\ previous' = NoPrevious

\* what a finished dispatch call has done: the handlers it invoked, the body
\* they saw, the value thrown in the chain, the errors the error handlers
\* received and the response
Finished ==
    [set |-> TRUE, trace |-> trace, body |-> req.body, thrown |-> thrown,
     etrace |-> etrace, wire |-> wire]

\* the raw request of the handle call just finished is given to the fetch
\* callback of listen, the registrations being the same
replay ==
    /\ phase = "done"
    /\ entry = "handle"
    /\ previous' = Finished
    /\ fetchCall(req.method, req.path, req.raw)

\* a chain that goes on to the next handler when a handler returns
Continue_auto(o, h, stk) ==
    /\ res' = o.res
    /\ CASE o.out = "call" ->
              /\ stack' = Append(stk, Frame(h, o.pc))
              /\ phase' = "next"
              /\ UNCHANGED error
         [] o.out = "return" ->
              /\ stack' = stk
              /\ phase' = IF index' < Len(handlers) THEN "next" ELSE "resume"
              /\ UNCHANGED error
         [] o.out = "throw" ->
              /\ stack' = << >>
              /\ phase' = "catch"
              /\ error' = propagate(o.exc, Len(stk) + 1, entry, "Middleware error: ")
    /\ thrown' = IF o.out = "throw" THEN o.exc ELSE thrown

\* what follows a handler's run o, the handler having been called through
\* next with the handlers of stk suspended below it; an exception unwinds
\* the awaiting handlers up to the catch around the chain, or up to a handler
\* that did not await
Continue(o, h, stk) ==
    /\ res' = o.res
    /\ CASE o.out = "call" ->
              /\ stack' = Append(stk, Frame(h, o.pc))
              /\ phase' = "next"
              /\ UNCHANGED error
         [] o.out = "detach" ->
              /\ stack' = Append(stk, DetachedFrame(h, o.pc))
              /\ phase' = "next"
              /\ UNCHANGED error
         [] o.out = "return" ->
              /\ stack' = stk
              /\ phase' = "resume"
              /\ UNCHANGED error
         [] o.out = "throw" ->
              IF InnermostDetached(stk) = 0
              THEN /\ stack' = << >>
                   /\ phase' = "catch"
                   /\ error' = propagate(o.exc, Len(stk) + 1, entry, "Middleware error: ")
              ELSE \* the promise that rejects is one nobody awaits: the
                   \* handler that dropped it goes on
                   /\ stack' = SubSeq(stk, 1, InnermostDetached(stk))
                   /\ phase' = "resume"
                   /\ UNCHANGED error
    /\ thrown' = IF o.out = "throw" THEN o.exc ELSE thrown

\* a next() that invokes the handler after the one that calls it, as a
\* continuation bound to the position of its caller does
next_bound ==
    /\ phase = "next"
    /\ IF Len(stack) < Len(handlers)
       THEN LET h == handlers[Len(stack) + 1] IN
            /\ index' = Len(stack) + 1
            /\ trace' = Append(trace, h)
            /\ \E o \in RunFrom(h, 1, res, NoError) : Continue(o, h, stack)
       ELSE /\ phase' = "resume"
            /\ UNCHANGED <<index, trace, res, stack, error, thrown>>
    /\ UNCHANGED <<regVars, calls, previous, parked,
                   entry, req, handlers, errorIndex, etrace, wire>>

\* a call of next(): invokes handlers[index++], or returns when exhausted
next ==
    /\ phase = "next"
    /\ IF index < Len(handlers)
       THEN LET h == handlers[index + 1] IN
            /\ index' = index + 1
            /\ trace' = Append(trace, h)
            /\ \E o \in RunFrom(h, 1, res, NoError) : Continue(o, h, stack)
       ELSE /\ phase' = "resume"
            /\ UNCHANGED <<index, trace, res, stack, error, thrown>>
    /\ UNCHANGED <<regVars, calls, previous, parked,
                   entry, req, handlers, errorIndex, etrace, wire>>

\* next() has returned to the handler that awaited it
resume ==
    /\ phase = "resume"
    /\ stack # << >>
    /\ LET top == stack[Len(stack)]
           stk == SubSeq(stack, 1, Len(stack) - 1)
       IN \E o \in RunFrom(top.h, top.pc, res, NoError) : Continue(o, top.h, stk)
    /\ UNCHANGED <<regVars, calls, previous, parked,
                   entry, req, handlers, index, errorIndex, trace,
                   etrace, wire>>

\* the body of a wire response that is the stream of an SSEWriter
SSEBody == [kind |-> "sse", data |-> ""]

\* the SSE stream sent with the status and the headers of the response object
wireOf_resHeaders(r) ==
    IF r.currentResponse.id # 0
    THEN Response(SSEBody, r.statusCode, r.headers)
    ELSE Response(r.body, r.statusCode, r.headers)

\* the wire response made of the response object r: the SSEWriter that is
\* the current response if there is one, else r itself
wireOf(r) ==
    IF r.currentResponse.id # 0
    THEN Response(SSEBody, r.currentResponse.statusCode, r.currentResponse.headers)
    ELSE Response(r.body, r.statusCode, r.headers)

\* the chain has settled: the response object becomes the wire response
respond ==
    /\ phase = "resume"
    /\ stack = << >>
    /\ LET r == wireOf(res) IN
       IF r.ok
       THEN /\ wire' = r.wire
            /\ phase' = "done"
            /\ UNCHANGED error
       ELSE /\ error' = r.exc
            /\ phase' = IF entry = "handle" THEN "catch" ELSE "boundary"
            /\ UNCHANGED wire
    /\ UNCHANGED <<regVars, calls, previous, parked,
                   entry, req, res, handlers, index, errorIndex,
                   stack, trace, etrace, thrown>>

\* the caught value wrapped in a new error
caught_wrapped(e, via) == HalinError(500, "Middleware error: " \o e.message)

\* the error the catch around the chain works with: handle makes an Error of
\* the caught value, listen takes it as it is
caught(e, via) == IF via = "handle" THEN toError(e) ELSE e

\* the catch around the chain: the error chain if there are error handlers
catch ==
    /\ phase = "catch"
    /\ error' = caught(error, entry)
    /\ IF Len(errorHandlers) > 0
       THEN /\ errorIndex' = 0
            /\ phase' = "errorNext"
       ELSE /\ phase' = "boundary"
            /\ UNCHANGED errorIndex
    /\ UNCHANGED <<regVars, calls, previous, parked,
                   entry, req, res, handlers, index, stack, trace,
                   etrace, thrown, wire>>

\* an error chain that goes on to the next error handler when one returns
ContinueError_auto(o, h, stk) ==
    /\ res' = o.res
    /\ CASE o.out = "call" ->
              /\ stack' = Append(stk, Frame(h, o.pc))
              /\ phase' = "errorNext"
              /\ UNCHANGED error
         [] o.out = "return" ->
              /\ stack' = stk
              /\ phase' = IF errorIndex' < Len(errorHandlers)
                          THEN "errorNext" ELSE "errorResume"
              /\ UNCHANGED error
         [] o.out = "throw" ->
              /\ stack' = << >>
              /\ phase' = "boundary"
              /\ error' = propagate(o.exc, Len(stk) + 1, entry, "Error handler failed: ")

\* what follows an error handler's run o, the handler having been called
\* through errorNext with the error handlers of stk suspended below it
ContinueError(o, h, stk) ==
    /\ res' = o.res
    /\ CASE o.out = "call" ->
              /\ stack' = Append(stk, Frame(h, o.pc))
              /\ phase' = "errorNext"
              /\ UNCHANGED error
         [] o.out = "return" ->
              /\ stack' = stk
              /\ phase' = "errorResume"
              /\ UNCHANGED error
         [] o.out = "throw" ->
              /\ stack' = << >>
              /\ phase' = "boundary"
              /\ error' = propagate(o.exc, Len(stk) + 1, entry, "Error handler failed: ")

\* a call of errorNext(): invokes errorHandlers[errorIndex++], or throws the
\* error when exhausted
errorNext ==
    /\ phase = "errorNext"
    /\ IF errorIndex < Len(errorHandlers)
       THEN LET h == errorHandlers[errorIndex + 1] IN
            /\ errorIndex' = errorIndex + 1
            /\ etrace' = Append(etrace, [h |-> h, error |-> error])
            /\ \E o \in RunFrom(h, 1, res, error) : ContinueError(o, h, stack)
       ELSE /\ stack' = << >>
            /\ phase' = "boundary"
            /\ error' = propagate(error, Len(stack) + 1, entry, "Error handler failed: ")
            /\ UNCHANGED <<errorIndex, etrace, res>>
    /\ UNCHANGED <<regVars, calls, previous, parked,
                   entry, req, handlers, index, trace, thrown, wire>>

\* errorNext() has returned to the error handler that awaited it
errorResume ==
    /\ phase = "errorResume"
    /\ stack # << >>
    /\ LET top == stack[Len(stack)]
           stk == SubSeq(stack, 1, Len(stack) - 1)
       IN \E o \in RunFrom(top.h, top.pc, res, etrace[Len(etrace)].error) :
              ContinueError(o, top.h, stk)
    /\ UNCHANGED <<regVars, calls, previous, parked,
                   entry, req, handlers, index, errorIndex, trace,
                   etrace, thrown, wire>>

\* the error chain has settled: handle answers with the response object,
\* listen goes on to the code that follows the chain
errorRespond ==
    /\ phase = "errorResume"
    /\ stack = << >>
    /\ LET r == IF entry = "handle"
                THEN Response(res.body, res.statusCode, res.headers)
                ELSE wireOf(res)
       IN
       IF r.ok
       THEN /\ wire' = r.wire
            /\ phase' = "done"
            /\ UNCHANGED error
       ELSE /\ error' = r.exc
            /\ phase' = "boundary"
            /\ UNCHANGED wire
    /\ UNCHANGED <<regVars, calls, previous, parked,
                   entry, req, res, handlers, index, errorIndex,
                   stack, trace, etrace, thrown>>

\* JSON.stringify({ error: 'Internal Server Error', message })
JSONGeneric(development, message) ==
    IF development
    THEN "{\"error\":\"Internal Server Error\",\"message\":\"" \o message \o "\"}"
    ELSE JSONError("Internal Server Error")

\* the fallback whatever the message
orElse_fallback(message, fallback) == fallback

\* error.message || fallback
orElse(message, fallback) == IF message = "" THEN fallback ELSE message

\* the response of the final error handling for the Error e
boundaryResponse(e, via, development) ==
    IF e.type = "HalinError"
    THEN Response(TextBody(JSONError(e.message)), e.statusCode, JSONHeaders)
    ELSE IF via = "handle"
         THEN Response(TextBody(JSONError(orElse(e.message, "Internal Server Error"))),
                       500, JSONHeaders)
         ELSE Response(TextBody(JSONGeneric(development,
                                   orElse(e.message, "Internal Server Error"))),
                       500, JSONHeaders)

\* final error handling, the outermost catch
boundary ==
    /\ phase = "boundary"
    /\ \E development \in BOOLEAN :
         LET r == boundaryResponse(toError(error), entry, development) IN
         wire' = IF r.ok THEN r.wire ELSE Rejected(r.exc)
    /\ phase' = "done"
    /\ UNCHANGED <<regVars, calls, previous, parked,
                   entry, req, res, handlers, index, errorIndex,
                   stack, error, trace, etrace, thrown>>

(***************************************************************************)
(* Two dispatch calls in flight.  Every step of the model runs from one     *)
(* suspension point (an await) of a call to the next; at a suspension point *)
(* the event loop may go on with the other call.                            *)
(***************************************************************************)
\* the locals of the call that is running
Running ==
    Locals(phase, entry, req, res, handlers, index, errorIndex, stack, error,
           trace, etrace, thrown, wire)

\* the cursor a field of the application, one for all the calls
switch_sharedIndex ==
    /\ phase # "idle"
    /\ parked' = Running
    /\ phase' = parked.phase
    /\ entry' = parked.entry
    /\ req' = parked.req
    /\ res' = parked.res
    /\ handlers' = parked.handlers
    /\ errorIndex' = parked.errorIndex
    /\ stack' = parked.stack
    /\ error' = parked.error
    /\ trace' = parked.trace
    /\ etrace' = parked.etrace
    /\ thrown' = parked.thrown
    /\ wire' = parked.wire
    /\ UNCHANGED <<regVars, calls, previous, index>>

\* the running call is suspended and the other call goes on (or, there being
\* none, a new call may begin): each call has its own locals
switch ==
    /\ phase # "idle"
    /\ parked' = Running
    /\ phase' = parked.phase
    /\ entry' = parked.entry
    /\ req' = parked.req
    /\ res' = parked.res
    /\ handlers' = parked.handlers
    /\ index' = parked.index
    /\ errorIndex' = parked.errorIndex
    /\ stack' = parked.stack
    /\ error' = parked.error
    /\ trace' = parked.trace
    /\ etrace' = parked.etrace
    /\ thrown' = parked.thrown
    /\ wire' = parked.wire
    /\ UNCHANGED <<regVars, calls, previous>>

(***************************************************************************)
(* Setter calls on the response object of the request in flight, made by   *)
(* application code before the chain goes on.                              *)
(***************************************************************************)
SetterCall(op, name, value, code) ==
    [op |-> op, name |-> name, value |-> value, code |-> code]

setterVars == <<regVars, previous, parked, phase, entry, req, handlers, index,
                errorIndex, stack, error, trace, etrace, thrown, wire>>

\* res.status(code)
resStatus(code) ==
    /\ phase = "next"
    /\ Len(calls) < MaxCalls
    /\ res' = status(res, code)
    /\ calls' = Append(calls, SetterCall("status", "", "", code))
    /\ UNCHANGED setterVars

\* res.header(name, value)
resHeader(name, value) ==
    /\ phase = "next"
    /\ Len(calls) < MaxCalls
    /\ res' = header(res, name, value)
    /\ calls' = Append(calls, SetterCall("header", name, value, 0))
    /\ UNCHANGED setterVars

(***************************************************************************)
(* Body-setting calls on the response object of the request in flight.     *)
(***************************************************************************)
\* a JavaScript value: typeof v, JSON.stringify(v) and String(v)
JSValue(type, str, coerced) == [type |-> type, json |-> str, str |-> coerced]

\* { a: 1 }, null, 'hi' and 42
BodyValues ==
    { JSValue("object", "{\"a\":1}", "[object Object]"),
      JSValue("object", "null", "null"),
      JSValue("string", "\"hi\"", "hi"),
      JSValue("number", "42", "42") }

\* a ReadableStream given to res.stream
StreamBody(id) == [kind |-> "stream", data |-> id]

\* res.json(data)
resJson(data) ==
    /\ phase = "next"
    /\ Len(calls) < MaxCalls
    /\ res' = json(res, data.json)
    /\ calls' = Append(calls, SetterCall("json", "", data, 0))
    /\ UNCHANGED setterVars

\* res.text(data)
resText(data) ==
    /\ phase = "next"
    /\ Len(calls) < MaxCalls
    /\ res' = text(res, data.str)
    /\ calls' = Append(calls, SetterCall("text", "", data, 0))
    /\ UNCHANGED setterVars

\* res.send(data): json for typeof data === 'object', text(String(data))
\* otherwise
resSend(data) ==
    /\ phase = "next"
    /\ Len(calls) < MaxCalls
    /\ res' = IF data.type = "object"
              THEN json(res, data.json)
              ELSE text(res, data.str)
    /\ calls' = Append(calls, SetterCall("send", "", data, 0))
    /\ UNCHANGED setterVars

\* res.stream(stream)
resStream(stream) ==
    /\ phase = "next"
    /\ Len(calls) < MaxCalls
    /\ res' = [res EXCEPT !.body = stream]
    /\ calls' = Append(calls, SetterCall("stream", "", stream, 0))
    /\ UNCHANGED setterVars

(***************************************************************************)
(* The SSE channel after the request: the application, which keeps the     *)
(* writer, goes on calling send and close; the consumer of the response    *)
(* may cancel the stream.                                                  *)
(***************************************************************************)
streamVars == <<regVars, calls, previous, parked, phase, entry, req, handlers, index, errorIndex, stack,
                error, trace, etrace, thrown, wire>>

send(data) ==
    /\ phase = "done"
    /\ res.currentResponse.id # 0
    /\ res.currentResponse.sends < MaxSends
    /\ res' = [res EXCEPT !.currentResponse = SSEWriterSend(@, data)]
    /\ UNCHANGED streamVars

close ==
    /\ phase = "done"
    /\ res.currentResponse.id # 0
    /\ res.currentResponse.closes < MaxCloses
    /\ res' = [res EXCEPT !.currentResponse = SSEWriterClose(@)]
    /\ UNCHANGED streamVars

cancel ==
    /\ phase = "done"
    /\ wire.kind = "response"
    /\ wire.body = SSEBody
    /\ res.currentResponse.stream = "readable"
    /\ res' = [res EXCEPT !.currentResponse = SSEWriterCancel(@)]
    /\ UNCHANGED streamVars

(***************************************************************************)
(* Inputs                                                                  *)
(***************************************************************************)
UseArgs == {"A", "B", "auth", "E", "EP", "ET"}

OnMethods == {"GET", "post"}

Templates == { <<"/", "x">> }

RouteChains == { <<"H">>, <<"T">>, <<"N", "H">>, <<"auth", "H">> }

GroupUseArgs == {"A"}

GroupArgs == { PathArg(<<"/", "a">>) }

NestedPrefixes == { <<"/", "v">> }

GroupMiddlewares == {"auth", "B"}

GroupRouteChains == { <<"H">> }

RequestMethods == {"GET", "POST"}

RequestPaths ==
    { <<"/", "x">>, <<"/", "a", "/", "x">>, <<"/", "a", "/", "y">>,
      <<"/", "a", "/", "v", "/", "x">> }

\* an application without groups
Register ==
    \/ \E h \in UseArgs : use(h)
    \/ \E m \in OnMethods, p \in Templates, hs \in RouteChains : on(m, p, hs)

\* an application whose routes are declared in groups
GroupRegister ==
    \/ \E h \in GroupUseArgs : use(h)
    \/ \E a \in GroupArgs : group(a)
    \/ \E b \in 1..MaxBuilders, h \in GroupMiddlewares : GroupBuilderUse(b, h)
    \/ \E b \in 1..MaxBuilders, p \in Templates, hs \in GroupRouteChains :
           GroupRouterAddRoute(b, "GET", p, hs)
    \/ \E b \in 1..MaxBuilders, p \in NestedPrefixes : GroupRouterGroup(b, p)

Dispatch ==
    \/ \E m \in RequestMethods, p \in RequestPaths : handle(m, p, NoBody)
    \/ \E m \in RequestMethods, p \in RequestPaths : fetch(m, p, NoBody)
    \/ next
    \/ resume
    \/ respond
    \/ catch
    \/ errorNext
    \/ errorResume
    \/ errorRespond
    \/ boundary

Next == Register \/ Dispatch

Spec == Init /\ [][Next]_vars

\* GroupRegister registers no error handler, so errorHandlers stays empty and
\* a caught error goes from catch straight to the final error handling
GroupDispatch ==
    \/ \E m \in RequestMethods, p \in RequestPaths : handle(m, p, NoBody)
    \/ \E m \in RequestMethods, p \in RequestPaths : fetch(m, p, NoBody)
    \/ next
    \/ resume
    \/ respond
    \/ catch
    \/ boundary

GroupNext == GroupRegister \/ GroupDispatch

GroupSpec == Init /\ [][GroupNext]_vars

\* an application of overlapping and parameterised routes, declared with the
\* get and post shortcuts
ShortcutTemplates ==
    { <<"/", "u", "/", ":", "i", "d">>, <<"/", ":", "a", "/", ":", "b">>,
      <<"/", "u", "/", "m", "e">> }

ShortcutChains == { <<"H">>, <<"B", "H">> }

ShortcutPaths ==
    { <<"/", "u", "/", "1", "2">>, <<"/", "u", "/", "m", "e">>,
      <<"/", "p", "/", "q">>, <<"/", "u">> }

ShortcutRegister ==
    \/ \E p \in ShortcutTemplates, hs \in ShortcutChains : get(p, hs)
    \/ \E p \in ShortcutTemplates, hs \in ShortcutChains : post(p, hs)

ShortcutDispatch ==
    \/ \E m \in RequestMethods, p \in ShortcutPaths : handle(m, p, NoBody)
    \/ \E m \in RequestMethods, p \in ShortcutPaths : fetch(m, p, NoBody)
    \/ next
    \/ resume
    \/ respond
    \/ catch
    \/ boundary

RouteNext == ShortcutRegister \/ ShortcutDispatch

RouteSpec == Init /\ [][RouteNext]_vars

\* an application with SSE routes
StreamUseArgs == {"EP", "E"}

StreamTemplates == { <<"/", "s">> }

StreamChains == { <<"S">>, <<"L", "H">>, <<"L", "T">> }

StreamPaths == { <<"/", "s">> }

StreamData == { StringData("hi"), ObjectData("{\"n\":1}") }

StreamRegister ==
    \/ \E h \in StreamUseArgs : use(h)
    \/ \E p \in StreamTemplates, hs \in StreamChains : get(p, hs)

StreamDispatch ==
    \/ \E p \in StreamPaths : handle("GET", p, NoBody)
    \/ \E p \in StreamPaths : fetch("GET", p, NoBody)
    \/ next
    \/ resume
    \/ respond
    \/ catch
    \/ errorNext
    \/ errorResume
    \/ errorRespond
    \/ boundary

Streaming ==
    \/ \E data \in StreamData : send(data)
    \/ close
    \/ cancel

StreamNext == StreamRegister \/ StreamDispatch \/ Streaming

StreamSpec == Init /\ [][StreamNext]_vars

\* an application whose handlers leave the status and the X header alone,
\* with setter calls made on the response object
SetterChains == { <<"N">>, <<"A", "H">> }

SetterCodes == {200, 404}

SetterNames == {"X", "x"}

SetterValues == {"a", "b"}

SetterRegister == \E hs \in SetterChains : get(<<"/", "x">>, hs)

SetterDispatch ==
    \/ handle("GET", <<"/", "x">>, NoBody)
    \/ fetch("GET", <<"/", "x">>, NoBody)
    \/ next
    \/ resume
    \/ respond
    \/ catch
    \/ boundary

Setters ==
    \/ \E code \in SetterCodes : resStatus(code)
    \/ \E name \in SetterNames, value \in SetterValues : resHeader(name, value)

SetterNext == SetterRegister \/ SetterDispatch \/ Setters

SetterSpec == Init /\ [][SetterNext]_vars

\* an application with middleware mounted at a path, a middleware that
\* throws and error handlers
MountedUseArgs == {"T", "EP", "E"}

MountedHandlers == {"A"}

MountedTemplates == { <<"/", "a", "p", "i", "/", "x">>, <<"/", "x">> }

MountedChains == { <<"H">> }

MountedPaths ==
    { <<"/", "a", "p", "i", "/", "x">>, <<"/", "x">>, <<"/", "y">> }

MountedRegister ==
    \/ \E h \in MountedUseArgs : use(h)
    \/ \E p \in MountPaths, h \in MountedHandlers : usePath(p, h)
    \/ \E p \in MountedTemplates, hs \in MountedChains : get(p, hs)

MountedDispatch ==
    \/ \E p \in MountedPaths : handle("GET", p, NoBody)
    \/ \E p \in MountedPaths : fetch("GET", p, NoBody)
    \/ next
    \/ resume
    \/ respond
    \/ catch
    \/ errorNext
    \/ errorResume
    \/ errorRespond
    \/ boundary

MountedNext == MountedRegister \/ MountedDispatch

MountedSpec == Init /\ [][MountedNext]_vars

\* an application whose requests carry bodies, each request given to handle
\* and then to the fetch callback
EngineUseArgs == {"A", "E"}

EngineChains == { <<"H">>, <<"T">> }

EnginePaths == { <<"/", "x">>, <<"/", "y">> }

EngineBodies ==
    { NoBody,
      RawBody("application/json", "{\"a\":1}", TRUE),
      RawBody("application/json", "{a", FALSE),
      RawBody("application/x-www-form-urlencoded", "a=1", TRUE),
      RawBody("text/plain", "hello", TRUE) }

EngineRegister ==
    \/ \E h \in EngineUseArgs : use(h)
    \/ \E hs \in EngineChains : post(<<"/", "x">>, hs)

\* no error handler registered by EngineRegister calls proceed, so no error
\* handler is ever resumed
EngineDispatch ==
    \/ \E p \in EnginePaths, b \in EngineBodies : handle("POST", p, b)
    \/ \E p \in EnginePaths, b \in EngineBodies : fetch("POST", p, b)
    \/ replay
    \/ next
    \/ resume
    \/ respond
    \/ catch
    \/ errorNext
    \/ errorRespond
    \/ boundary

EngineNext == EngineRegister \/ EngineDispatch

EngineSpec == Init /\ [][EngineNext]_vars

\* an application with the cors middleware of the documentation, which calls
\* next() without awaiting it
CorsUseArgs == {"E"}

CorsChains == { <<"cors", "H">>, <<"cors", "T">>, <<"cors", "A", "T">>, <<"T">> }

CorsRegister ==
    \/ \E h \in CorsUseArgs : use(h)
    \/ \E hs \in CorsChains : get(<<"/", "x">>, hs)

CorsDispatch ==
    \/ handle("GET", <<"/", "x">>, NoBody)
    \/ fetch("GET", <<"/", "x">>, NoBody)
    \/ next
    \/ resume
    \/ respond
    \/ catch
    \/ errorNext
    \/ errorRespond
    \/ boundary

CorsNext == CorsRegister \/ CorsDispatch

CorsSpec == Init /\ [][CorsNext]_vars

\* an application with a middleware, error handlers that recover and that
\* pass the failure on, and routes that answer and that throw
ChainRegister ==
    \/ \E h \in EngineUseArgs \cup StreamUseArgs : use(h)
    \/ \E hs \in EngineChains : get(<<"/", "x">>, hs)

ChainDispatch ==
    \/ \E p \in EnginePaths : handle("GET", p, NoBody)
    \/ \E p \in EnginePaths : fetch("GET", p, NoBody)
    \/ next
    \/ resume
    \/ respond
    \/ catch
    \/ errorNext
    \/ errorResume
    \/ errorRespond
    \/ boundary

ChainNext == ChainRegister \/ ChainDispatch

ChainSpec == Init /\ [][ChainNext]_vars

\* an application of groups and nested groups whose builders are given one
\* middleware, any number of times, before and after routes are declared
BuilderRegister ==
    \/ \E a \in GroupArgs : group(a)
    \/ \E b \in 1..MaxBuilders : GroupBuilderUse(b, "B")
    \/ \E b \in 1..MaxBuilders, p \in Templates, hs \in GroupRouteChains :
           GroupRouterAddRoute(b, "GET", p, hs)
    \/ \E b \in 1..MaxBuilders, p \in NestedPrefixes : GroupRouterGroup(b, p)

\* BuilderRegister registers no error handler
BuilderDispatch ==
    \/ \E p \in RequestPaths : handle("GET", p, NoBody)
    \/ \E p \in RequestPaths : fetch("GET", p, NoBody)
    \/ next
    \/ resume
    \/ respond
    \/ catch
    \/ boundary

BuilderNext == BuilderRegister \/ BuilderDispatch

BuilderSpec == Init /\ [][BuilderNext]_vars

\* an application that serves two requests at a time; registration is over
\* when the first request is dispatched
ServingUseArgs == {"A"}

ServingChains == { <<"H">>, <<"B", "N">>, <<"S">> }

ServingRegister ==
    /\ parked = NoLocals
    /\ \/ \E h \in ServingUseArgs : use(h)
       \/ \E p \in EnginePaths, hs \in ServingChains : get(p, hs)

ServingDispatch ==
    \/ \E p \in EnginePaths : handle("GET", p, NoBody)
    \/ \E p \in EnginePaths : fetch("GET", p, NoBody)
    \/ next
    \/ resume
    \/ respond
    \/ catch
    \/ boundary
    \/ switch

ServingNext == ServingRegister \/ ServingDispatch

ServingSpec == Init /\ [][ServingNext]_vars

\* an application whose handlers leave the body alone, with body-setting
\* calls made on the response object
BodyChains == { <<"N">>, <<"A", "N">>, <<"L", "N">> }

BodyRegister == \E hs \in BodyChains : get(<<"/", "x">>, hs)

BodyDispatch ==
    \/ handle("GET", <<"/", "x">>, NoBody)
    \/ fetch("GET", <<"/", "x">>, NoBody)
    \/ next
    \/ resume
    \/ respond
    \/ catch
    \/ boundary

BodyCalls ==
    \/ \E v \in {w \in BodyValues : w.type = "object"} : resJson(v)
    \/ \E v \in {w \in BodyValues : w.type = "string"} : resText(v)
    \/ \E v \in BodyValues : resSend(v)
    \/ resStream(StreamBody(1))

BodyNext == BodyRegister \/ BodyDispatch \/ BodyCalls

BodySpec == Init /\ [][BodyNext]_vars

\* an application whose templates hold a '.', a wildcard, a wildcard after a
\* parameter, a parameter name used twice and a ':' without a name
PatternTemplates ==
    { <<"/", "a", ".", "b">>, <<"/", "f", "/", "*">>, <<"/", ":", "i", "/", "*">>,
      <<"/", ":", "a", "/", ":", "a">>, <<"/", "u", "/", ":">> }

PatternPaths ==
    { <<"/", "a", ".", "b">>, <<"/", "a", "X", "b">>, <<"/", "f">>, <<"/", "f", "/">>,
      <<"/", "f", "/", "1">>, <<"/", "f", "/", "1", "/", "2">>,
      <<"/", "7", "/", "x", "/", "y">>, <<"/", "1", "/", "2">>, <<"/", "u", "/", ":">> }

PatternRegister == \E t \in PatternTemplates, hs \in ShortcutChains : get(t, hs)

PatternDispatch ==
    \/ \E q \in PatternPaths : handle("GET", q, NoBody)
    \/ \E q \in PatternPaths : fetch("GET", q, NoBody)
    \/ next
    \/ resume
    \/ respond
    \/ catch
    \/ boundary

PatternNext == PatternRegister \/ PatternDispatch

PatternSpec == Init /\ [][PatternNext]_vars

\* an application with a handler that calls next() twice
CursorUseArgs == {"A", "D"}

CursorChains == { <<"D", "N", "H">>, <<"D", "A", "H">>, <<"D", "D", "H">>, <<"N", "H">> }

CursorRegister ==
    \/ \E h \in CursorUseArgs : use(h)
    \/ \E hs \in CursorChains : get(<<"/", "x">>, hs)

CursorDispatch ==
    \/ handle("GET", <<"/", "x">>, NoBody)
    \/ fetch("GET", <<"/", "x">>, NoBody)
    \/ next
    \/ resume
    \/ respond
    \/ catch
    \/ boundary

CursorNext == CursorRegister \/ CursorDispatch

CursorSpec == Init /\ [][CursorNext]_vars

\* an application that declares its routes first and its global middleware
\* afterwards; the middleware of a group is added to before and after the
\* routes of the group
LateUseArgs == {"A"}

LatePaths == { <<"/", "x">>, <<"/", "a", "/", "x">> }

LateRegister ==
    \/ /\ middlewares = << >>
       /\ \/ \E hs \in EngineChains : get(<<"/", "x">>, hs)
          \/ \E a \in GroupArgs : group(a)
          \/ \E b \in 1..MaxBuilders, hs \in GroupRouteChains :
                 GroupRouterAddRoute(b, "GET", <<"/", "x">>, hs)
    \/ \E b \in 1..MaxBuilders : GroupBuilderUse(b, "B")
    \/ /\ routes # << >>
       /\ \E h \in LateUseArgs : use(h)

LateDispatch ==
    \/ \E q \in LatePaths : handle("GET", q, NoBody)
    \/ \E q \in LatePaths : fetch("GET", q, NoBody)
    \/ next
    \/ resume
    \/ respond
    \/ catch
    \/ boundary

LateNext == LateRegister \/ LateDispatch

LateSpec == Init /\ [][LateNext]_vars

\* an application whose handlers set status and headers on the response
\* object and on SSE channels, and create more than one channel
ChannelUseArgs == {"A", "B"}

ChannelChains == { <<"W", "N">>, <<"W", "R">>, <<"L", "H">>, <<"S">>, <<"H">> }

ChannelRegister ==
    \/ \E h \in ChannelUseArgs : use(h)
    \/ \E hs \in ChannelChains : get(<<"/", "s">>, hs)

ChannelDispatch ==
    \/ handle("GET", <<"/", "s">>, NoBody)
    \/ fetch("GET", <<"/", "s">>, NoBody)
    \/ next
    \/ resume
    \/ respond
    \/ catch
    \/ boundary

ChannelNext == ChannelRegister \/ ChannelDispatch

ChannelSpec == Init /\ [][ChannelNext]_vars

(***************************************************************************)
(* Properties                                                              *)
(***************************************************************************)
IsPrefix(s, t) == Len(s) <= Len(t) /\ s = SubSeq(t, 1, Len(s))

\* handler h calls the continuation it is given
CallsNext(h) == \E k \in 1..Len(Program(h)) : Program(h)[k].op = "next"

\* handler h can throw
Throws(h) ==
    \E k \in 1..Len(Program(h)) : Program(h)[k].op \in {"throw", "throwAny", "auth"}

\* every handler of the sequence but the last calls the continuation
AllProceed(hs) == \A k \in 1..(Len(hs) - 1) : CallsNext(hs[k])

\* route i matches the request in flight
Matching(i) ==
    /\ routes[i].method = req.method
    /\ match(req.path, routes[i].pattern).ok

\* route i is the one the request in flight resolves to
Resolved(i) == Matching(i) /\ \A j \in 1..(i - 1) : ~Matching(j)

RECURSIVE Flatten(_)
Flatten(ss) == IF ss = << >> THEN << >> ELSE Head(ss) \o Flatten(Tail(ss))

\* what the handlers of tr, run in this order, write to a response r
RECURSIVE WrittenFrom(_, _, _, _)
WrittenFrom(tr, i, pc, r) ==
    IF i > Len(tr) THEN r
    ELSE IF pc > Len(Program(tr[i])) THEN WrittenFrom(tr, i + 1, 1, r)
    ELSE LET st == Program(tr[i])[pc] IN
         WrittenFrom(tr, i, pc + 1,
            CASE st.op = "status" -> [r EXCEPT !.statusCode = st.n]
              [] st.op = "header" ->
                   [r EXCEPT !.headers = {q \in @ : q[1] # HeaderName(st.a)}
                                            \cup {<<HeaderName(st.a), st.b>>}]
              [] st.op = "json" ->
                   [r EXCEPT !.headers = {q \in @ : q[1] # "content-type"}
                                            \cup {<<"content-type", "application/json">>},
                             !.body = [kind |-> "text", data |-> st.a]]
              [] OTHER -> r)

Written(tr) ==
    WrittenFrom(tr, 1, 1, [statusCode |-> 200, headers |-> {}, body |-> NullBody])

\* C1: for a request that resolves to a route declared with on, the handlers
\* invoked are, in this order and each at most once, the global middleware
\* in use() order and then the route's own handlers in the order given; when
\* every handler before the last calls proceed and none throws, exactly that
\* whole sequence has run when the request is answered.
C1_ChainOrder ==
    \A i \in 1..Len(routes) :
        (phase # "idle" /\ Resolved(i) /\ declared[i].levels = << >>) =>
            LET full == middlewares \o declared[i].handlers IN
            /\ IsPrefix(trace, full)
            /\ (phase = "done" /\ thrown = NoError /\ AllProceed(full))
                   => trace = full

C1_Witness ==
    /\ phase = "done"
    /\ middlewares = <<"A", "B">>
    /\ trace = <<"A", "B", "H">>
    /\ wire.kind = "response"

C3_NotFound ==
    (/\ phase = "done"
     /\ \A i \in 1..Len(routes) : ~Matching(i)
     /\ \A k \in 1..Len(errorHandlers) : CallsNext(errorHandlers[k]))
        => /\ trace = << >>
           /\ wire = [kind |-> "response", status |-> 404,
                      headers |-> {<<"content-type", "application/json">>},
                      body |-> [kind |-> "text",
                                data |-> "{\"error\":\"Not Found\"}"]]

C3_Witness ==
    /\ phase = "done"
    /\ entry = "handle"
    /\ Len(routes) = 1
    /\ routes[1].path = req.path
    /\ routes[1].method # req.method
    /\ errorHandlers = <<"EP">>
    /\ etrace # << >>
    /\ wire.status = 404

\* the message of the Error that handle makes of a thrown value
CarriedMessage(v) == IF v.type = "null" THEN "null" ELSE v.message

C5_TypedFailure ==
    (/\ phase = "done"
     /\ thrown.type = "HalinError"
     /\ \A k \in 1..Len(errorHandlers) : CallsNext(errorHandlers[k]))
        => wire = [kind |-> "response", status |-> thrown.statusCode,
                   headers |-> {<<"content-type", "application/json">>},
                   body |-> [kind |-> "text",
                             data |-> "{\"error\":\"" \o thrown.message \o "\"}"]]

\* C6 (as claimed): an unrecovered plain Error is answered with status 500
\* and the generic body {"error":"Internal Server Error"}, never with the
\* message of the thrown error.
C6_GenericMessage ==
    (phase = "done" /\ thrown.type = "Error" /\ errorHandlers = << >>)
        => wire = [kind |-> "response", status |-> 500,
                   headers |-> {<<"content-type", "application/json">>},
                   body |-> [kind |-> "text",
                             data |-> "{\"error\":\"Internal Server Error\"}"]]

\* C7 (as claimed): in handle, a plain Error with message m thrown with no
\* error handler registered is answered with status 500 and {"error": m}.
C7_OwnMessage ==
    (phase = "done" /\ entry = "handle" /\ thrown.type = "Error"
        /\ errorHandlers = << >>)
        => wire = [kind |-> "response", status |-> 500,
                   headers |-> {<<"content-type", "application/json">>},
                   body |-> [kind |-> "text",
                             data |-> "{\"error\":\"" \o thrown.message \o "\"}"]]

\* C7 (amended): in handle, a plain Error with a non-empty message m thrown
\* with no error handler registered is answered with status 500 and
\* {"error": m}; with an empty message the body is
\* {"error":"Internal Server Error"}.
C7_OwnMessageUnlessEmpty ==
    (phase = "done" /\ entry = "handle" /\ thrown.type = "Error"
        /\ errorHandlers = << >>)
        => wire = [kind |-> "response", status |-> 500,
                   headers |-> {<<"content-type", "application/json">>},
                   body |-> [kind |-> "text",
                             data |-> IF thrown.message = ""
                                      THEN "{\"error\":\"Internal Server Error\"}"
                                      ELSE "{\"error\":\"" \o thrown.message \o "\"}"]]

C7_Witness ==
    /\ phase = "done"
    /\ entry = "handle"
    /\ thrown = PlainError("boom")
    /\ errorHandlers = << >>
    /\ wire.status = 500
    /\ wire.body = TextBody("{\"error\":\"boom\"}")

\* C8 (as claimed): every dispatch call that ends has resolved with a
\* response; it never rejects, whatever the handlers threw.
C8_AlwaysResponds == phase = "done" => wire.kind = "response"

\* C9: a request that resolves to a route declared in a group (not nested)
\* invokes, in this order and each at most once, the global middleware, the
\* middleware the group had when the route was declared, then the route's own
\* handlers, and the route is the one at prefix + path; when every handler
\* before the last calls proceed and none throws, exactly that sequence has
\* run.  A request that no route matches, under the prefix or not, invokes
\* no handler at all and is answered 404 {"error":"Not Found"}.
C9_GroupChain ==
    /\ \A i \in 1..Len(routes) :
         (phase # "idle" /\ Resolved(i) /\ Len(declared[i].levels) = 1) =>
             LET full == middlewares \o declared[i].levels[1]
                             \o declared[i].handlers
             IN /\ req.path = declared[i].prefixes[1] \o declared[i].path
                /\ IsPrefix(trace, full)
                /\ (phase = "done" /\ thrown = NoError /\ AllProceed(full))
                       => trace = full
    /\ (phase # "idle" /\ \A i \in 1..Len(routes) : ~Matching(i)) =>
           /\ trace = << >>
           /\ (phase = "done" /\ errorHandlers = << >>) =>
                  /\ wire.status = 404
                  /\ wire.body = [kind |-> "text",
                                  data |-> "{\"error\":\"Not Found\"}"]

C9_Witness ==
    /\ phase = "done"
    /\ Len(routes) = 1
    /\ declared[1].prefixes = << <<"/", "a">> >>
    /\ declared[1].levels = << <<"auth">> >>
    /\ req.path = <<"/", "a", "/", "x">>
    /\ trace = <<"A", "auth", "H">>
    /\ wire.status = 200

\* C10: a route declared in a group nested in another group is reachable at
\* outer prefix + inner prefix + path; a request that resolves to it invokes,
\* in this order and each at most once, the global middleware, the outer
\* group's middleware, the inner group's middleware, then the route's own
\* handlers; once one of them has thrown, no later one is invoked.
C10_NestedGroups ==
    \A i \in 1..Len(routes) :
        (phase # "idle" /\ Resolved(i) /\ Len(declared[i].levels) = 2) =>
            LET full == middlewares \o declared[i].levels[1]
                            \o declared[i].levels[2] \o declared[i].handlers
            IN /\ req.path = declared[i].prefixes[1] \o declared[i].prefixes[2]
                                 \o declared[i].path
               /\ IsPrefix(trace, full)
               /\ (phase = "done" /\ thrown = NoError /\ AllProceed(full))
                      => trace = full
               /\ thrown # NoError => Throws(trace[Len(trace)])

C10_Witness ==
    /\ phase = "done"
    /\ Len(routes) = 1
    /\ declared[1].prefixes = << <<"/", "a">>, <<"/", "v">> >>
    /\ declared[1].levels = << <<"auth">>, <<"B">> >>
    /\ req.path = <<"/", "a", "/", "v", "/", "x">>
    /\ trace = <<"A", "auth", "B", "H">>
    /\ wire.status = 202

\* the segments of a path or template: what stands between its '/'
RECURSIVE Segments(_, _, _)
Segments(path, i, acc) ==
    IF i > Len(path) THEN <<acc>>
    ELSE IF path[i] = "/" THEN <<acc>> \o Segments(path, i + 1, << >>)
    ELSE Segments(path, i + 1, Append(acc, path[i]))

IsParam(seg) == Len(seg) >= 2 /\ seg[1] = ":"

\* the parameter names a template declares, in order
RECURSIVE DeclaredNames(_)
DeclaredNames(segs) ==
    IF segs = << >> THEN << >>
    ELSE (IF IsParam(Head(segs)) THEN <<Tail(Head(segs))>> ELSE << >>)
             \o DeclaredNames(Tail(segs))

\* the segments with the values put in place of the parameters, in order
RECURSIVE Substituted(_, _)
Substituted(segs, vals) ==
    IF segs = << >> THEN << >>
    ELSE IF IsParam(Head(segs))
         THEN <<Head(vals)>> \o Substituted(Tail(segs), Tail(vals))
         ELSE <<Head(segs)>> \o Substituted(Tail(segs), vals)

\* a template of literal segments and :name segments with distinct names
PlainTemplate(t) ==
    LET segs == Segments(t, 1, << >>)
        names == DeclaredNames(segs)
    IN /\ \A k \in 1..Len(t) : t[k] \notin {"*", "."}
       /\ \A k \in 1..Len(segs) :
              \A j \in 1..Len(segs[k]) : segs[k][j] = ":" => j = 1 /\ Len(segs[k]) >= 2
       /\ \A j, k \in 1..Len(names) : names[j] = names[k] => j = k

\* non-empty values without '/'
ParamValues == { <<"1", "2">>, <<"m", "e">>, <<"u">>, <<"p">>, <<"q">> }

\* C11: when the request resolves to a route whose template has literal
\* segments and :name segments with distinct names, and the request path is
\* the template with non-empty slash-free values v1..vn in place of its
\* parameters p1..pn, the params the handlers see are exactly p1: v1, ...,
\* pn: vn, the i-th declared name bound to the i-th value;  /u/:id
\* requested as /u/12 gives {id: '12'}.
C11_Params ==
    \A i \in 1..Len(routes) :
        (phase # "idle" /\ Resolved(i) /\ PlainTemplate(routes[i].path)) =>
            LET segs == Segments(routes[i].path, 1, << >>)
                names == DeclaredNames(segs)
            IN \A vals \in [1..Len(names) -> ParamValues] :
                   Segments(req.path, 1, << >>) = Substituted(segs, vals)
                       => req.params = [k \in 1..Len(names) |-> <<names[k], vals[k]>>]

C11_Witness ==
    /\ phase = "done"
    /\ Len(routes) = 2
    /\ routes[1].path = <<"/", ":", "a", "/", ":", "b">>
    /\ req.path = <<"/", "u", "/", "1", "2">>
    /\ req.params = << << <<"a">>, <<"u">> >>, << <<"b">>, <<"1", "2">> >> >>
    /\ trace # << >>
    /\ wire.status = 200

\* C12: the route a request resolves to is the first, in registration order,
\* of the routes that have the request's method and a pattern matching its
\* path; only that route's handlers are invoked, whether or not a route
\* registered later matches too or is more specific.
C12_FirstMatch ==
    \A i \in 1..Len(routes) :
        (phase # "idle" /\ Resolved(i)) =>
            LET full == middlewares \o routes[i].handlers IN
            /\ handlers = full
            /\ IsPrefix(trace, full)
            /\ (phase = "done" /\ thrown = NoError /\ AllProceed(full))
                   => trace = full

C12_Witness ==
    /\ phase = "done"
    /\ Len(routes) = 2
    /\ routes[1].path = <<"/", "u", "/", ":", "i", "d">>
    /\ routes[2].path = <<"/", "u", "/", "m", "e">>
    /\ routes[1].method = "GET"
    /\ routes[2].method = "GET"
    /\ req.method = "GET"
    /\ req.path = <<"/", "u", "/", "m", "e">>
    /\ declared[1].handlers = <<"B", "H">>
    /\ declared[2].handlers = <<"H">>
    /\ trace = <<"B", "H">>
    /\ wire.status = 202

\* C13: once close() has closed an SSE channel, the channel stays closed;
\* controller.close() has run exactly once on it, however many times close()
\* is called again; every later send() enqueues nothing; and no call on the
\* channel throws.
C13_CloseIsFinal ==
    [][LET w == res.currentResponse
           w2 == res'.currentResponse
       IN /\ w2.finalized <= 1
          /\ w2.by = "close" => (w2.closed /\ w2.finalized = 1 /\ ~w2.fault)
          /\ (w.id # 0 /\ w.by = "close" /\ w2.id = w.id) =>
                 /\ w2.by = "close"
                 /\ w2.chunks = w.chunks
                 /\ w2.stream = w.stream]_vars

C13_Witness ==
    LET w == res.currentResponse IN
    /\ phase = "done"
    /\ w.by = "close"
    /\ w.sends = 2
    /\ w.closes = 2
    /\ Len(w.chunks) = 1
    /\ w.finalized = 1
    /\ ~w.fault

\* C14: when the consumer cancels the stream of an SSE channel that is not
\* closed, the channel becomes closed without a close() call; from then on
\* send() enqueues nothing, close() does not call controller.close(), and
\* neither throws.
C14_CancelCloses ==
    [][LET w == res.currentResponse
           w2 == res'.currentResponse
       IN /\ w2.by = "cancel" => (w2.closed /\ w2.finalized = 0 /\ ~w2.fault)
          /\ (w.id # 0 /\ w2.id = w.id /\ w.stream = "readable"
                 /\ w2.stream = "cancelled") =>
                 (w2.closed /\ w2.closes = w.closes /\ w2.sends = w.sends)
          /\ (w.id # 0 /\ w.by = "cancel" /\ w2.id = w.id) =>
                 /\ w2.by = "cancel"
                 /\ w2.chunks = w.chunks
                 /\ w2.stream = w.stream]_vars

C14_Witness ==
    LET w == res.currentResponse IN
    /\ phase = "done"
    /\ w.by = "cancel"
    /\ w.sends = 2
    /\ w.closes = 1
    /\ Len(w.chunks) = 1
    /\ w.finalized = 0
    /\ ~w.fault

\* C15: a wire response whose body is the stream of an SSE channel has the
\* headers Content-Type: text/event-stream, Cache-Control: no-cache and
\* Connection: keep-alive, and no other value for them, whatever the handlers
\* set on the response object.
C15_SSEHeaders ==
    (wire.kind = "response" /\ wire.body = SSEBody) =>
        /\ {<<"content-type", "text/event-stream">>,
            <<"cache-control", "no-cache">>,
            <<"connection", "keep-alive">>} \subseteq wire.headers
        /\ \A q \in wire.headers :
               /\ q[1] = "content-type" => q[2] = "text/event-stream"
               /\ q[1] = "cache-control" => q[2] = "no-cache"
               /\ q[1] = "connection" => q[2] = "keep-alive"

C15_Witness ==
    /\ phase = "done"
    /\ wire.kind = "response"
    /\ wire.body = SSEBody
    /\ trace = <<"L", "H">>
    /\ <<"cache-control", "public">> \in res.headers
    /\ <<"content-type", "application/json">> \in res.headers
    /\ <<"cache-control", "no-cache">> \in wire.headers

IsStatusCall(c) == c.op = "status"

IsXHeaderCall(c) == c.op = "header" /\ c.name \in {"X", "x"}

\* C16: after any sequence of status and header calls on a response object
\* the status is the code of the last status call (200 if there was none),
\* and the response has, for the name X written in either case, no header if
\* header was never called with it and otherwise exactly one, with the value
\* of the last call; the wire response made of the object carries them.
C16_LastWriteWins ==
    LET sc == SelectSeq(calls, IsStatusCall)
        hx == SelectSeq(calls, IsXHeaderCall)
        code == IF sc = << >> THEN 200 ELSE sc[Len(sc)].code
        xs == IF hx = << >> THEN {} ELSE {<<"x", hx[Len(hx)].value>>}
    IN /\ res.statusCode = code
       /\ {q \in res.headers : q[1] \in {"X", "x"}} = xs
       /\ (phase = "done" /\ trace # << >>) =>
              /\ wire.status = code
              /\ {q \in wire.headers : q[1] \in {"X", "x"}} = xs

C16_Witness ==
    /\ phase = "done"
    /\ calls = <<SetterCall("status", "", "", 404),
                 SetterCall("header", "X", "a", 0),
                 SetterCall("header", "x", "b", 0)>>
    /\ trace = <<"A", "H">>
    /\ wire.status = 404
    /\ <<"x", "b">> \in wire.headers
    /\ <<"x", "a">> \notin wire.headers

\* C17 (as claimed): every entry of the error handler list is a function of
\* four parameters and every entry of the middleware list a function of
\* another number of parameters; no error handler is invoked in the chain and
\* no middleware in the error chain.
C17_Classified ==
    /\ \A k \in 1..Len(errorHandlers) : errorHandlers[k] \in ErrorHandlers
    /\ \A k \in 1..Len(middlewares) : middlewares[k] \in Handlers
    /\ \A k \in 1..Len(trace) : trace[k] \notin ErrorHandlers
    /\ \A k \in 1..Len(etrace) : etrace[k].h \notin Handlers

\* the characters of a string passed to use
MountPath(str) ==
    CASE str = "/api" -> <<"/", "a", "p", "i">>
      [] str = "/admin" -> <<"/", "a", "d", "m", "i", "n">>

\* path is the mount path or lies below it
Under(path, mount) ==
    /\ IsPrefix(mount, path)
    /\ Len(path) > Len(mount) => path[Len(mount) + 1] = "/"

\* C18 (as claimed): a middleware registered with use(path, handler) is not
\* invoked for a request whose path is not under that path, and is invoked,
\* before the route's handlers, for a request under it that resolves to a
\* route, unless a middleware before it throws.
C18_Mounted ==
    \A k \in 1..Len(middlewares) :
        (phase # "idle" /\ mounted[k] # "" /\ middlewares[k] \in Handlers) =>
            /\ ~Under(req.path, MountPath(mounted[k])) => Len(trace) < k
            /\ (/\ phase = "done"
                /\ Under(req.path, MountPath(mounted[k]))
                /\ \E i \in 1..Len(routes) : Resolved(i)
                /\ \A j \in 1..(k - 1) : ~Throws(middlewares[j]))
                   => Len(trace) >= k

\* C19 (as claimed): in handle, when the first global middleware throws and
\* the error handler E is the only one registered, the middleware has run
\* and thrown, E has received an error with the thrown message, and the
\* response is 500 with the body {"error": message}, whether or not the
\* path of the request has a route.
C19_MiddlewareError ==
    (/\ phase = "done"
     /\ entry = "handle"
     /\ middlewares # << >>
     /\ middlewares[1] = "T"
     /\ errorHandlers = <<"E">>)
        => /\ trace = <<"T">>
           /\ thrown # NoError
           /\ etrace # << >>
           /\ etrace[1].error.message = CarriedMessage(thrown)
           /\ wire.kind = "response"
           /\ wire.status = 500
           /\ wire.body = TextBody(JSONError(CarriedMessage(thrown)))

\* C20 (as claimed): when the raw request of a handle call is given to the
\* fetch callback of listen with the same registrations, and the same value
\* (or none) is thrown in the chain, the fetch callback has invoked the same
\* handlers in the same order, with the same request body, has handed the
\* same errors to the same error handlers and answers with the same
\* response.
C20_SameEngine ==
    (previous.set /\ phase = "done" /\ thrown = previous.thrown) =>
        /\ trace = previous.trace
        /\ req.body = previous.body
        /\ etrace = previous.etrace
        /\ wire = previous.wire

\* C21 (as claimed): in handle and in listen, when a handler of the chain
\* throws an Error, the first error handler receives that very value (same
\* class, same carried status, same message), and so does the final error
\* handling when every error handler invoked has passed the failure on.
C21_ErrorIdentity ==
    (thrown # NoError /\ instanceofError(thrown)) =>
        /\ etrace # << >> => etrace[1].error = thrown
        /\ (phase = "boundary" /\ \A k \in 1..Len(etrace) : CallsNext(etrace[k].h))
               => error = thrown

\* C22 (as claimed): in handle and in listen, whenever at least one error
\* handler is registered, a request that failed (no route, a body that does
\* not parse, a HalinError or any other value thrown) has been passed to the
\* error chain by the time it is answered.
C22_UniformPath ==
    (phase = "done" /\ error # NoError /\ errorHandlers # << >>)
        => etrace # << >>

\* the handlers of the error handlers invoked, in order
Invoked(et) == [k \in 1..Len(et) |-> et[k].h]

C23_Exhausted ==
    /\ phase = "done"
    /\ entry = "handle"
    /\ errorHandlers = <<"EP", "EP">>
    /\ Invoked(etrace) = <<"EP", "EP">>
    /\ thrown = HalinError(418, "teapot")
    /\ wire.status = 418

\* C24 (as claimed): when an error handler that is not the last one
\* registered throws, the error handler registered next is invoked before
\* the request goes to the final error handling.
C24_ReRaise ==
    \A k \in 1..Len(etrace) :
        (/\ phase \in {"boundary", "done"}
         /\ Throws(etrace[k].h)
         /\ k < Len(errorHandlers))
            => Len(etrace) > k

\* C30 (as claimed): when a handler of the request has called sse() and the
\* request completes, the chain having settled without a failure or an error
\* handler having recovered from a later failure by returning without
\* calling proceed, the wire response is the stream of the SSE channel.
C30_SSEWins ==
    (/\ phase = "done"
     /\ res.currentResponse.id # 0
     /\ \/ error = NoError
        \/ /\ etrace # << >>
           /\ etrace[Len(etrace)].h = "E")
        => /\ wire.kind = "response"
           /\ wire.body = SSEBody

\* C27: a step of a dispatch call (the call itself, a handler or an error
\* handler run, the response) leaves the route list with every route's
\* handler chain, the middleware list and the error handler list as they
\* were, whether the request matches a route or not and fails or not.
C27_DispatchFrame ==
    [][phase' # "idle" =>
          /\ routes' = routes
          /\ middlewares' = middlewares
          /\ errorHandlers' = errorHandlers]_vars

C27_Witness ==
    /\ phase = "done"
    /\ entry = "handle"
    /\ thrown # NoError
    /\ middlewares = <<"A">>
    /\ errorHandlers = <<"E">>
    /\ Len(routes) = 1
    /\ routes[1].handlers = <<"T">>
    /\ trace = <<"A", "T">>
    /\ Invoked(etrace) = <<"E">>
    /\ wire.status = 500

\* C28: the handler chain of a route declared in a group is the middleware
\* the group builder had when the route was declared followed by the route's
\* own handlers, whatever is added to the builder afterwards; a request that
\* resolves to the route invokes handlers of that chain only; and every route
\* declared is in the route table.
C28_ChainFixed ==
    /\ Len(routes) = Len(declared)
    /\ \A i \in 1..Len(routes) :
         Len(declared[i].levels) = 1 =>
             LET fixed == declared[i].levels[1] \o declared[i].handlers
                 full == middlewares \o fixed
             IN /\ routes[i].handlers = fixed
                /\ (phase # "idle" /\ Resolved(i)) =>
                       /\ IsPrefix(trace, full)
                       /\ (phase = "done" /\ thrown = NoError /\ AllProceed(full))
                              => trace = full

C28_Witness ==
    /\ phase = "done"
    /\ Len(builders) = 1
    /\ builders[1]._middlewares = <<"B", "B">>
    /\ Len(routes) = 1
    /\ declared[1].levels = << <<"B">> >>
    /\ req.path = <<"/", "a", "/", "x">>
    /\ trace = <<"B", "H">>
    /\ wire.status = 202

\* C29: the middleware of a group builder is what its parent had when the
\* builder was created followed by what was added to the builder itself,
\* whatever is added to the parent or to a builder nested in it afterwards;
\* a route declared through a nested group has the chain parent's middleware
\* at creation, the nested group's own middleware at declaration, its own
\* handlers, and a request that resolves to it invokes handlers of that chain
\* only; a route declared through the parent has none of the nested group's
\* middleware.
C29_NestedCopy ==
    /\ \A b \in 1..Len(builders) :
           builders[b]._middlewares = Flatten(origin[b].levels)
    /\ \A i \in 1..Len(routes) :
           LET fixed == Flatten(declared[i].levels) \o declared[i].handlers
               full == middlewares \o fixed
           IN /\ routes[i].handlers = fixed
              /\ (phase # "idle" /\ Resolved(i) /\ Len(declared[i].levels) = 2) =>
                     /\ IsPrefix(trace, full)
                     /\ (phase = "done" /\ thrown = NoError /\ AllProceed(full))
                            => trace = full

\* middleware added to the parent after the nested group was created
C29_Witness ==
    /\ phase = "done"
    /\ Len(builders) = 2
    /\ builders[1]._middlewares = <<"B", "B">>
    /\ builders[2]._middlewares = <<"B">>
    /\ origin[2].prefixes = << <<"/", "a">>, <<"/", "v">> >>
    /\ Len(routes) = 1
    /\ declared[1].levels = << <<"B">>, << >> >>
    /\ req.path = <<"/", "a", "/", "v", "/", "x">>
    /\ trace = <<"B", "H">>
    /\ wire.status = 202

\* middleware added to the nested group, a route declared through the parent
C29_ParentRoute ==
    /\ phase = "done"
    /\ Len(builders) = 2
    /\ builders[1]._middlewares = << >>
    /\ builders[2]._middlewares = <<"B">>
    /\ origin[2].prefixes = << <<"/", "a">>, <<"/", "v">> >>
    /\ Len(routes) = 1
    /\ declared[1].levels = << << >> >>
    /\ req.path = <<"/", "a", "/", "x">>
    /\ trace = <<"H">>
    /\ wire.status = 200

\* C25 (as claimed): a request in whose chain a handler has thrown is a
\* failed request when it is answered, and its failure has been handed to the
\* error chain if an error handler is registered, whether or not the handlers
\* above the one that threw awaited the continuation they called.
C25_Settled ==
    (phase = "done" /\ thrown # NoError) =>
        /\ error # NoError
        /\ errorHandlers # << >> => etrace # << >>

\* the handlers of hs that run when none throws: up to the first one that
\* does not call the continuation
RECURSIVE ShortCircuit(_)
ShortCircuit(hs) ==
    IF hs = << >> THEN << >>
    ELSE IF CallsNext(Head(hs)) THEN <<Head(hs)>> \o ShortCircuit(Tail(hs))
    ELSE <<Head(hs)>>

\* what the dispatch call with the locals c does when it is the only one in
\* flight, none of its handlers throwing: the handlers it invokes and its
\* response
Alone(c) ==
    LET m == findRoute(c.req.method, c.req.path) IN
    IF ~m.found
    THEN [trace |-> << >>,
          wire |-> WireResponse(TextBody(JSONError("Not Found")), 404, JSONHeaders)]
    ELSE LET tr == ShortCircuit(middlewares \o routes[m.route].handlers) IN
         [trace |-> tr,
          wire |-> IF \E k \in 1..Len(tr) : tr[k] = "S"
                   THEN WireResponse(SSEBody, 200, SSEWriter(1).headers)
                   ELSE WireResponse(Written(tr).body, Written(tr).statusCode,
                                     Written(tr).headers)]

\* C26: of two dispatch calls in flight on one application, interleaved at
\* their suspension points in any way, each invokes the handlers it invokes
\* when it is alone, in the same order, and resolves with the same response;
\* an SSE channel opened by one receives the events of that call only.
C26_Independent ==
    \A c \in {Running, parked} :
        c.phase # "idle" =>
            /\ IsPrefix(c.trace, Alone(c).trace)
            /\ c.phase = "done" =>
                   /\ c.trace = Alone(c).trace
                   /\ c.wire = Alone(c).wire
                   /\ c.res.currentResponse.id # 0 =>
                          c.res.currentResponse.chunks
                              = <<SSEFrame(ObjectData("{\"message\":\"test\"}"))>>

\* one call answered while the other is in the middle of its chain
C26_Witness ==
    /\ phase = "done"
    /\ middlewares = <<"A">>
    /\ req.path = <<"/", "x">>
    /\ trace = <<"A", "B", "N">>
    /\ wire.status = 202
    /\ parked.phase = "next"
    /\ parked.req.path = <<"/", "y">>
    /\ parked.trace = <<"A">>
    /\ parked.index = 1

\* a value for which send is said to behave as json
ObjectLike(v) == v.type = "object" /\ v.json # "null"

\* what a body-setting call leaves as the body
Payload(c) ==
    CASE c.op = "json" -> TextBody(c.value.json)
      [] c.op = "text" -> TextBody(c.value.str)
      [] c.op = "send" -> IF ObjectLike(c.value) THEN TextBody(c.value.json)
                          ELSE TextBody(c.value.str)
      [] c.op = "stream" -> c.value

\* C31: without sse(), the body of the wire response built from the response
\* object is the payload of the last body-setting call made during the
\* request, whatever the kinds of the calls: the JSON text for json, the
\* string for text, the one or the other for send according to the value
\* being object-like, the stream itself for stream.
C31_LastBody ==
    (/\ phase = "done"
     /\ wire.kind = "response"
     /\ res.currentResponse.id = 0
     /\ calls # << >>)
        => wire.body = Payload(calls[Len(calls)])

\* a stream replaced by the text of a send, itself set over a JSON body
C31_Witness ==
    /\ phase = "done"
    /\ wire.kind = "response"
    /\ res.currentResponse.id = 0
    /\ Len(calls) = 3
    /\ calls[1].op = "json"
    /\ calls[2].op = "stream"
    /\ calls[3].op = "send"
    /\ calls[3].value.type = "number"
    /\ wire.body = TextBody("42")

\* a text replaced by a stream
C31_StreamLast ==
    /\ phase = "done"
    /\ entry = "listen"
    /\ Len(calls) = 2
    /\ calls[1].op = "text"
    /\ calls[2].op = "stream"
    /\ wire.body = StreamBody(1)

\* C32: send() of an SSE channel reports its outcome: a call made while the
\* channel is open, whose event is written, returns true (and a call on a
\* closed channel returns false), so that a loop pushing events until send()
\* returns a falsy value goes on as long as the channel is open.
C32_SendReports ==
    LET w == res.currentResponse IN
    (/\ w.id # 0
     /\ w.sends > 0
     /\ ~w.closed
     /\ Len(w.chunks) = w.sends)
        => w.returned = "true"

\* the frames of the sends logged before the first close or cancellation
RECURSIVE FramesUntilClosed(_)
FramesUntilClosed(log) ==
    IF log = << >> \/ Head(log).op \in {"close", "cancel"} THEN << >>
    ELSE <<"data: " \o Head(log).data.v \o "\n\n">> \o FramesUntilClosed(Tail(log))

\* C33: the chunks written to the stream of an SSE channel are, in call
\* order, one frame per send() made before the first close() or cancellation
\* of the channel and nothing else, the frame being 'data: ' + payload +
\* '\n\n' with the string itself as payload for a string and the JSON text
\* otherwise; sends made after the response was handed back are included.
C33_Frames ==
    res.currentResponse.id # 0
        => res.currentResponse.chunks = FramesUntilClosed(res.currentResponse.log)

\* a channel handed back open: a string and an object pushed after the
\* response, then close(), then a send that is dropped
C33_Witness ==
    /\ phase = "done"
    /\ wire.kind = "response"
    /\ wire.body = SSEBody
    /\ Len(res.currentResponse.log) = 2
    /\ res.currentResponse.log[1] = [op |-> "send", data |-> StringData("hi")]
    /\ res.currentResponse.log[2].op = "close"
    /\ res.currentResponse.sends = 2
    /\ res.currentResponse.chunks = <<"data: hi\n\n">>

\* two events pushed after the response, in the order of the calls
C33_InOrder ==
    /\ phase = "done"
    /\ wire.body = SSEBody
    /\ res.currentResponse.chunks = <<"data: {\"n\":1}\n\n", "data: hi\n\n">>

\* a template without parameter and wildcard
LiteralTemplate(t) == \A k \in 1..Len(t) : t[k] \notin {":", "*"}

\* C34: a template without ':' and '*' matches a request path if and only if
\* the path is the template, character for character, also when the template
\* holds a character the matcher reserves (/a.b does not match /aXb).
C34_LiteralMatch ==
    \A i \in 1..Len(routes) :
        (phase # "idle" /\ routes[i].method = req.method
            /\ LiteralTemplate(routes[i].path))
            => (Matching(i) <=> req.path = routes[i].path)

\* a template of literal segments and :name segments with distinct names,
\* with or without a last segment *
SegmentTemplate(t) ==
    LET segs == Segments(t, 1, << >>)
        names == DeclaredNames(segs)
    IN /\ \A k \in 1..Len(segs) :
              \/ segs[k] = <<"*">> /\ k = Len(segs)
              \/ IsParam(segs[k]) /\ \A j \in 2..Len(segs[k]) : segs[k][j] \notin {":", "*", "."}
              \/ \A j \in 1..Len(segs[k]) : segs[k][j] \notin {":", "*", "."}
       /\ \A j, k \in 1..Len(names) : names[j] = names[k] => j = k

\* the segments of a path fit those of a template
SegmentsMatch(tsegs, psegs) ==
    LET wild == tsegs[Len(tsegs)] = <<"*">>
        n == IF wild THEN Len(tsegs) - 1 ELSE Len(tsegs)
    IN /\ IF wild THEN Len(psegs) > n ELSE Len(psegs) = n
       /\ \A k \in 1..n :
              IF IsParam(tsegs[k]) THEN psegs[k] # << >> ELSE psegs[k] = tsegs[k]

\* the names of the template with the segments of the path at their places
RECURSIVE BoundAt(_, _, _)
BoundAt(tsegs, psegs, k) ==
    IF k > Len(tsegs) THEN << >>
    ELSE (IF IsParam(tsegs[k]) THEN << <<Tail(tsegs[k]), psegs[k]>> >> ELSE << >>)
             \o BoundAt(tsegs, psegs, k + 1)

\* C35: a template of literal segments and :name segments that ends in '/*'
\* matches every path that starts with the part before the '*', whatever
\* follows; without the '*' it matches the paths of as many segments as it
\* has; a :name segment stands for one non-empty segment, and the request
\* sees each name bound to the segment at its place.
C35_Wildcard ==
    \A i \in 1..Len(routes) :
        (phase # "idle" /\ routes[i].method = req.method
            /\ SegmentTemplate(routes[i].path))
            => LET tsegs == Segments(routes[i].path, 1, << >>)
                   psegs == Segments(req.path, 1, << >>)
               IN /\ Matching(i) <=> SegmentsMatch(tsegs, psegs)
                  /\ Resolved(i) => req.params = BoundAt(tsegs, psegs, 1)

\* /:i/* requested as /7/x/y: two segments taken by the wildcard, i = 7
C35_Witness ==
    /\ phase = "done"
    /\ Len(routes) = 1
    /\ routes[1].path = <<"/", ":", "i", "/", "*">>
    /\ req.path = <<"/", "7", "/", "x", "/", "y">>
    /\ req.params = << << <<"i">>, <<"7">> >> >>
    /\ trace = <<"H">>
    /\ wire.status = 200

\* /f/* requested as /f/: nothing after the part before the '*'
C35_EmptyRest ==
    /\ phase = "done"
    /\ Len(routes) = 1
    /\ routes[1].path = <<"/", "f", "/", "*">>
    /\ req.path = <<"/", "f", "/">>
    /\ trace = <<"H">>

\* /f/* requested as /f: not a path that starts with /f/
C35_NoSlash ==
    /\ phase = "done"
    /\ Len(routes) = 1
    /\ routes[1].path = <<"/", "f", "/", "*">>
    /\ req.path = <<"/", "f">>
    /\ wire.status = 404

\* a template in which every ':' has a name and no name is used twice
WellFormed(t) ==
    LET segs == Segments(t, 1, << >>)
        names == DeclaredNames(segs)
    IN /\ \A k \in 1..Len(segs) : segs[k] # <<":">>
       /\ \A j, k \in 1..Len(names) : names[j] = names[k] => j = k

\* C36: a template with a ':' that no name follows, or with a parameter name
\* used twice, is rejected when the route is registered: no route of the
\* application has such a template.
C36_Rejected == \A i \in 1..Len(routes) : WellFormed(routes[i].path)

\* C37: within a request the cursor of the chain only moves forward: the
\* handlers invoked so far are the first positions of the effective chain,
\* each once and in increasing order, however many times handlers call
\* next(); a second next() of a handler invokes the first handler not yet
\* run, or nothing when the chain is exhausted.
C37_Forward ==
    phase # "idle" =>
        /\ index = Len(trace)
        /\ index <= Len(handlers)
        /\ \A k \in 1..Len(trace) : trace[k] = handlers[k]

\* D calls next() (N runs and returns), then next() again: H runs
C37_Witness ==
    /\ phase = "done"
    /\ middlewares = << >>
    /\ handlers = <<"D", "N", "H">>
    /\ trace = <<"D", "N", "H">>
    /\ wire.status = 200
    /\ wire.body = TextBody("{\"message\":\"test\"}")

\* the second next() of D finds the chain exhausted
C37_Exhausted ==
    /\ phase = "done"
    /\ handlers = <<"D", "D", "A", "H">>
    /\ trace = handlers

\* C38: the global middleware run for a request is the global list as it
\* stands when the request is dispatched: the chain of a request is that
\* list, the middleware added with use() after the route was registered
\* included, then the middleware the route's groups had when the route was
\* registered, then the route's own handlers.
C38_GlobalAtDispatch ==
    \A i \in 1..Len(routes) :
        (phase # "idle" /\ Resolved(i)) =>
            /\ handlers = middlewares \o Flatten(declared[i].levels)
                               \o declared[i].handlers
            /\ (phase = "done" /\ thrown = NoError) => trace = handlers

\* the route was registered with no global middleware and one B in its
\* group; A was added with use() and a second B to the group afterwards
C38_Witness ==
    /\ phase = "done"
    /\ Len(routes) = 1
    /\ declared[1].levels = << <<"B">> >>
    /\ builders[1]._middlewares = <<"B", "B">>
    /\ middlewares = <<"A", "A">>
    /\ trace = <<"A", "A", "B", "H">>
    /\ wire.status = 202

\* a route declared with get before the middleware
C38_Plain ==
    /\ phase = "done"
    /\ entry = "listen"
    /\ Len(routes) = 1
    /\ declared[1].levels = << >>
    /\ middlewares = <<"A">>
    /\ trace = <<"A", "H">>

\* no channel created
NoChannel == [made |-> FALSE, statusCode |-> 0, headers |-> {}]

\* the last channel the handlers of tr create, with what they set on it
RECURSIVE ChannelFrom(_, _, _, _)
ChannelFrom(tr, i, pc, c) ==
    IF i > Len(tr) THEN c
    ELSE IF pc > Len(Program(tr[i])) THEN ChannelFrom(tr, i + 1, 1, c)
    ELSE LET st == Program(tr[i])[pc] IN
         ChannelFrom(tr, i, pc + 1,
            CASE st.op = "sse" ->
                   [made |-> TRUE, statusCode |-> 200,
                    headers |-> {<<"content-type", "text/event-stream">>,
                                 <<"cache-control", "no-cache">>,
                                 <<"connection", "keep-alive">>}]
              [] st.op = "sseStatus" -> [c EXCEPT !.statusCode = st.n]
              [] OTHER -> c)

\* C39: when a handler has called sse() and the request completes without a
\* failure, the status and the headers of the wire response are those of the
\* last SSE channel created (200 and the three SSE headers unless set on the
\* channel itself): nothing set on the response object, before or after
\* sse(), nor on an earlier channel, is in the wire response.
C39_ChannelOnly ==
    LET c == ChannelFrom(trace, 1, 1, NoChannel) IN
    (phase = "done" /\ thrown = NoError /\ c.made) =>
        /\ wire.kind = "response"
        /\ wire.body = SSEBody
        /\ wire.status = c.statusCode
        /\ wire.headers = c.headers

\* B sets 202 on the response object, W makes a channel, sets 201 on it and
\* 404 on the response object, R makes a second channel and sets a header on
\* the response object: the response is that of the second channel
C39_Witness ==
    /\ phase = "done"
    /\ trace = <<"B", "W", "R">>
    /\ res.statusCode = 404
    /\ <<"x", "1">> \in res.headers
    /\ res.currentResponse.id = 2
    /\ wire.status = 200
    /\ wire.headers = SSEWriter(2).headers

\* one channel, its status set on the channel itself
C39_OnChannel ==
    /\ phase = "done"
    /\ trace = <<"W", "N">>
    /\ res.statusCode = 404
    /\ wire.status = 201
    /\ wire.body = SSEBody

\* C40: handle resolves the route, then parses the body, then runs the
\* chain: a request whose application/json body is malformed fails with
\* NotFound when no route matches it and with 400 'Invalid JSON body' when a
\* route does, no middleware and no route handler having been invoked.
C40_PreChain ==
    (/\ phase # "idle"
     /\ entry = "handle"
     /\ req.raw.present
     /\ req.raw.contentType = "application/json"
     /\ ~req.raw.valid) =>
        LET failure == IF \E i \in 1..Len(routes) : Matching(i)
                       THEN HalinError(400, "Invalid JSON body")
                       ELSE HalinError(404, "Not Found")
        IN /\ trace = << >>
           /\ error = failure
           /\ \A k \in 1..Len(etrace) : etrace[k].error = failure
           /\ (phase = "done" /\ errorHandlers = << >>) =>
                  /\ wire.status = failure.statusCode
                  /\ wire.body = TextBody(JSONError(failure.message))

\* no route for the path, a malformed body, a middleware registered
C40_Witness ==
    /\ phase = "done"
    /\ entry = "handle"
    /\ ~req.raw.valid
    /\ middlewares = <<"A">>
    /\ errorHandlers = << >>
    /\ Len(routes) = 1
    /\ req.path = <<"/", "y">>
    /\ trace = << >>
    /\ wire.status = 404

\* a route for the path, a malformed body
C40_Malformed ==
    /\ phase = "done"
    /\ entry = "handle"
    /\ ~req.raw.valid
    /\ middlewares = <<"A">>
    /\ errorHandlers = << >>
    /\ Len(routes) = 1
    /\ routes[1].handlers = <<"H">>
    /\ req.path = <<"/", "x">>
    /\ trace = << >>
    /\ wire.status = 400
    /\ wire.body = TextBody("{\"error\":\"Invalid JSON body\"}")

\* the failure given to an error handler
C40_Handled ==
    /\ phase = "done"
    /\ entry = "handle"
    /\ ~req.raw.valid
    /\ req.path = <<"/", "x">>
    /\ Len(etrace) = 1
    /\ etrace[1].error = HalinError(400, "Invalid JSON body")
    /\ trace = << >>

====
